---------------------------- MODULE Spec2Model ----------------------------
(***************************************************************************)
(* Voxel Ecosystem Simulator: the grid world, its per-species rules, the   *)
(* shared atmosphere and the step orchestrator, in the three variants of   *)
(* the repository:                                                         *)
(*   "complete"  src/app.js            (Complete Edition, 8 species)       *)
(*   "2d"        src/unnamed/part_000  (2D grid, 5 species)                *)
(*   "3d"        src/unnamed/part_001  (Three.js voxel grid, 5 species)    *)
(*                                                                         *)
(* Numbers.  The program computes in doubles; the model computes in fixed  *)
(* point:                                                                  *)
(*   energy            1/1000    (EU  = 1000  is energy 1.0)               *)
(*   genetic traits    1/100     (100 is trait 1.0)                        *)
(*   fertility, moisture 1/1000                                            *)
(*   maturityAge, elderAge 1/20  (so maxAge*0.2 and maxAge*0.75 are exact) *)
(* The statistics-only fields distanceTraveled, id and the coordinates     *)
(* stored in trail and memory are not kept.                                *)
(* A product is rounded toward zero to the unit, and a nonzero product     *)
(* never rounds to zero (Scale).  The gases o2 and co2 are the one place   *)
(* where the program compares a sum of doubles with an exact bound, so     *)
(* they are kept as the doubles they are, with the rounding of every       *)
(* addition and subtraction (Rnd); the literals of the gas exchange are    *)
(* written in 1/10000 (Dbl).                                               *)
(* Math.random() is a nondeterministic choice: "Math.random() < p" may be  *)
(* true when p > 0 and false when p < 1.                                   *)
(*                                                                         *)
(* step() runs to completion before any other handler (single-threaded     *)
(* JavaScript).  It is modelled by StepBegin (time, disasters, snapshot    *)
(* and shuffle), one ProcessEntry per worklist entry, and StepEnd          *)
(* (rebalance, generation, statistics, history); while pc # "idle" no      *)
(* other operation is enabled.                                             *)
(***************************************************************************)
EXTENDS Integers, Sequences, FiniteSets, TLC

VARIABLES
    variant,      \* which program runs: "complete", "2d" or "3d"
    grid,         \* cell -> entity reference, 0 = null
    ents,         \* entity reference -> entity object (the heap)
    terrain,      \* cell -> TerrainCell (Complete Edition)
    atmosphere,   \* [o2, co2, sunlight]
    generation,
    clock,        \* [seasonTimer, currentSeason, weather, weatherTimer]
    densities,    \* the preset bundle the densities were taken from
    populations,  \* the statistics updateStats() last computed
    history,      \* PopulationHistory: [timestamps, plants, total]
    disasters,    \* DisasterManager: [active, cooldown]
    saved,        \* the text saveState() last returned (NoSave before)
    pc,           \* "idle", or "process" inside step()
    worklist,     \* step(): the shuffled entries not yet visited
    ops,          \* number of tool/UI operations performed (bounded)
    steps,        \* number of step() calls started (bounded)
    locals,       \* populate(): the locals of its colony-seed loop in progress
    obs           \* observations of the last operation (history variable)

vars == <<variant, grid, ents, terrain, atmosphere, generation, clock,
          densities, populations, history, disasters, saved, pc, worklist,
          ops, steps, locals, obs>>

-----------------------------------------------------------------------------
(* Bounds of the model *)

GridSize == 2        \* gridSize: cells are (0..GridSize-1)^2
HeightLayers == 2    \* heightLayers of the 3D variant
MaxSteps == 1        \* step() calls in one behaviour
MaxOps == 1          \* tool/UI operations in one behaviour
MaxPop == 1          \* entities populate() places in the model

-----------------------------------------------------------------------------
(* Enumerations *)

EMPTY == 0
PLANT == 1
HERBIVORE == 2
CARNIVORE == 3
DECOMPOSER == 4
DEAD_MATTER == 5
OMNIVORE == 6
APEX_PREDATOR == 7
PARASITE == 8

T_NORMAL == 0
T_WATER == 1
T_MOUNTAIN == 2
T_FERTILE == 3
T_BARREN == 4
TerrainTypes == {T_NORMAL, T_WATER, T_MOUNTAIN, T_FERTILE, T_BARREN}

Seasons == <<"spring", "summer", "fall", "winter">>
Weathers == {"clear", "rain", "drought", "storm"}
DisasterTypes == {"fire", "flood", "disease"}

EntityTypesOf(v) ==
    IF v = "complete"
    THEN {PLANT, HERBIVORE, CARNIVORE, DECOMPOSER, DEAD_MATTER,
          OMNIVORE, APEX_PREDATOR, PARASITE}
    ELSE {PLANT, HERBIVORE, CARNIVORE, DECOMPOSER, DEAD_MATTER}

-----------------------------------------------------------------------------
(* Fixed point *)

EU == 10 * 100

Min(a, b) == IF a <= b THEN a ELSE b
Max(a, b) == IF a >= b THEN a ELSE b
Abs(a) == IF a >= 0 THEN a ELSE -a
Sign(a) == IF a > 0 THEN 1 ELSE IF a < 0 THEN -1 ELSE 0

\* a * n / d with n >= 0, d > 0
Scale(a, n, d) ==
    LET p == Abs(a) * n
        q == p \div d
    IN  IF p = 0 THEN 0
        ELSE IF q = 0 THEN Sign(a)
        ELSE Sign(a) * q

\* The possible values of "Math.random() < p", p = num/den, den > 0
Chance(num, den) ==
    {b \in BOOLEAN : (b => num > 0) /\ (~b => num < den)}

\* The possible values of "Math.random() > p"
ChanceAbove(num, den) ==
    {b \in BOOLEAN : (b => num < den) /\ (~b => num >= 0)}

Bind(S, F(_)) == UNION {F(s) : s \in S}

\* The gases are doubles.  A double d with 0 <= d < 512 is kept exactly, as
\* the three limbs <<top, mid, low>> of d * 2^61 in base 2^20:
\* d = (top * 2^40 + mid * 2^20 + low) / 2^61, 0 <= mid, low < 2^20.
Limb == 1024 * 1024

\* the limbs of an exact value whose mid and low parts carry or borrow
Norm(top, mid, low) ==
    LET m == mid + (low \div Limb)
    IN  <<top + (m \div Limb), m % Limb, low % Limb>>

RECURSIVE Log2(_)
Log2(n) == IF n < 2 THEN 0 ELSE 1 + Log2(n \div 2)

RECURSIVE Pow2(_)
Pow2(k) == IF k = 0 THEN 1 ELSE 2 * Pow2(k - 1)

\* Rounding of an exact value to a double: to the nearest multiple of the
\* unit in the last place of its 53-bit significand, ties to the even
\* significand.  The last place of x is bit Log2(top) - 12 of low; a value
\* below 2^-8 is a double as it is.
Rnd(x) ==
    IF x[1] < 8192 THEN x
    ELSE LET q == Pow2(Log2(x[1]) - 12)
             r == x[3] % q
             up == IF 2 * r > q THEN TRUE
                   ELSE IF 2 * r < q THEN FALSE
                   ELSE (x[3] \div q) % 2 = 1
         IN  Norm(x[1], x[2], (x[3] - r) + (IF up THEN q ELSE 0))

\* a < b
DLess(a, b) ==
    \/ a[1] < b[1]
    \/ a[1] = b[1] /\ a[2] < b[2]
    \/ a[1] = b[1] /\ a[2] = b[2] /\ a[3] < b[3]

\* the double of the integer n
DInt(n) == <<n * 2 * Limb, 0, 0>>

\* The double of the decimal literal n / 10000 (0.002 is Dbl(20)), for the
\* literals of the gas exchange
Dbl(n) ==
    CASE n = 20 -> <<4194, 318767, 109052>>
      [] n = 30 -> <<6291, 478150, 687866>>
      [] n = 40 -> <<8388, 637534, 218104>>
      [] n = 80 -> <<16777, 226492, 436208>>
      [] n = 100 -> <<20971, 545259, 545260>>
      [] n = 120 -> <<25165, 864026, 654312>>
      [] n = 130 -> <<27262, 1023410, 184548>>
      [] n = 150 -> <<31457, 293601, 293600>>
      [] n = 180 -> <<37748, 771751, 981464>>
      [] n = 200 -> <<41943, 41943, 41944>>
      [] n = 300 -> <<62914, 587202, 587200>>
      [] n = 400 -> <<83886, 83886, 83888>>
      [] n = 500 -> <<104857, 629145, 629152>>
      [] n = 800 -> <<167772, 167772, 167776>>
      [] n = 1000 -> <<209715, 209715, 209728>>
      [] n = 1500 -> <<314572, 838860, 838848>>
      [] n = 2000 -> <<419430, 419430, 419456>>
      [] n = 3000 -> <<629145, 629145, 629120>>
      [] n = 5000 -> <<1048576, 0, 0>>

\* the double a + b
DAdd(a, b) == Rnd(Norm(a[1] + b[1], a[2] + b[2], a[3] + b[3]))

\* the double a - b, for b <= a
DMinus(a, b) == Rnd(Norm(a[1] - b[1], a[2] - b[2], a[3] - b[3]))

\* the double Math.max(0, a - b)
DSub(a, b) == IF DLess(a, b) THEN DInt(0) ELSE DMinus(a, b)

\* the double a * 0.5 of a double a that is a multiple of 2^-60
DHalf(a) == <<a[1] \div 2, (a[2] \div 2) + (a[1] % 2) * (Limb \div 2),
              (a[3] \div 2) + (a[2] % 2) * (Limb \div 2)>>

\* Math.min(100, a)
AtMost100(a) == IF DLess(DInt(100), a) THEN DInt(100) ELSE a

\* gas > n for an integer n
Above(gas, n) == DLess(DInt(n), gas)

-----------------------------------------------------------------------------
(* Cells *)

Layers(v) == IF v = "3d" THEN 0 .. (HeightLayers - 1) ELSE {0}

Coord == 0 .. (GridSize - 1)

CellsOf(v) == {c \in Coord \X Coord \X (0 .. (HeightLayers - 1)) : c[3] \in Layers(v)}

AllCells == Coord \X Coord \X (0 .. (HeightLayers - 1))

NCells == GridSize * GridSize * HeightLayers

\* references: enough for the objects one step() can create
MaxRef == 2 * NCells
Refs == 1 .. MaxRef

NoEnt == [type |-> EMPTY]

-----------------------------------------------------------------------------
(* Genetics *)

Traits == {"speed", "efficiency", "size", "fertility", "immunity",
           "lifespan", "perception", "camouflage"}

\* new Genetics(): one draw of the random initial traits (speed, efficiency,
\* size, fertility, lifespan, perception in 0.8..1.2; immunity, camouflage
\* in 0.5..1.0)
DefaultGenes ==
    [speed |-> 100, efficiency |-> 100, size |-> 100, fertility |-> 100,
     immunity |-> 75, lifespan |-> 100, perception |-> 100, camouflage |-> 75]

RandomGenetics == {DefaultGenes}

\* inheritTrait(val1, val2); m is the mutation drawn (0: none)
inheritTrait(val1, val2, m) ==
    Max(30, Min(200, ((val1 + val2) \div 2) + m))

\* (Math.random() - 0.5) * 0.3 lies in [-0.15, 0.15); one draw per child
MutationDraws == {0, -15, 14}

InheritedGenetics(g1, g2) ==
    {[t \in Traits |-> inheritTrait(g1[t], g2[t], m)] : m \in MutationDraws}

-----------------------------------------------------------------------------
(* Entity *)

InitialEnergyBase(type) ==
    CASE type = PLANT -> 60 [] type = HERBIVORE -> 80 [] type = CARNIVORE -> 100
      [] type = DECOMPOSER -> 50 [] type = DEAD_MATTER -> 40
      [] type = OMNIVORE -> 90 [] type = APEX_PREDATOR -> 120
      [] type = PARASITE -> 40 [] OTHER -> 50

MaxEnergyBase(type) ==
    CASE type = PLANT -> 150 [] type = HERBIVORE -> 180 [] type = CARNIVORE -> 200
      [] type = DECOMPOSER -> 120 [] type = DEAD_MATTER -> 80
      [] type = OMNIVORE -> 200 [] type = APEX_PREDATOR -> 250
      [] type = PARASITE -> 100 [] OTHER -> 100

MaxAgeBase(type) ==
    CASE type = PLANT -> 150 [] type = HERBIVORE -> 120 [] type = CARNIVORE -> 100
      [] type = DECOMPOSER -> 180 [] type = DEAD_MATTER -> 40
      [] type = OMNIVORE -> 110 [] type = APEX_PREDATOR -> 90
      [] type = PARASITE -> 60 [] OTHER -> 100

\* The draws of Math.random() * 20 (energy) and Math.random() * 30 (age)
EnergyJitter == {0, 10 * EU}
AgeJitter == {0}

\* 2D and 3D variants: getInitialEnergy / getMaxAge, base and draw
SimpleInitialEnergy(type) ==
    CASE type = PLANT -> {50 * EU, 70 * EU}
      [] type = HERBIVORE -> {70 * EU, 100 * EU}
      [] type = CARNIVORE -> {100 * EU, 140 * EU}
      [] type = DECOMPOSER -> {40 * EU, 55 * EU}
      [] type = DEAD_MATTER -> {30 * EU, 45 * EU}
      [] OTHER -> {0}

SimpleMaxAge(type) ==
    CASE type = PLANT -> {80}
      [] type = HERBIVORE -> {60}
      [] type = CARNIVORE -> {50}
      [] type = DECOMPOSER -> {100}
      [] type = DEAD_MATTER -> {20}
      [] OTHER -> {0}

getMaxEnergy(type, g) == Scale(MaxEnergyBase(type) * EU, g.size, 100)

\* An entity object with every field of the Complete Edition's Entity; the
\* 2D/3D variants use type, x, y, z, energy, age, maxAge only.
MkEntity(type, c, g, energy, maxAge) ==
    [type |-> type, x |-> c[1], y |-> c[2], z |-> c[3],
     genetics |-> g,
     energy |-> energy, maxEnergy |-> getMaxEnergy(type, g),
     age |-> 0, maxAge |-> maxAge, lifeStage |-> "juvenile",
     maturityAge |-> 4 * maxAge, elderAge |-> 15 * maxAge,
     trail |-> 0, maxTrail |-> 12,
     cyclesSinceReproduction |-> 0, offspring |-> 0, kills |-> 0, foodEaten |-> 0,
     isInfected |-> FALSE, diseaseTimer |-> 0,
     isImmune |-> FALSE, immuneTimer |-> 0,
     fleeing |-> FALSE, fleeTimer |-> 0, memory |-> 0, maxMemory |-> 5,
     host |-> 0, parasites |-> <<>>]

\* new Entity(type, x, y) with the genetics g its constructor drew or
\* inherited: the set of objects the random draws can give
EntityDrawn(type, c, g, energyDraws, ageDraws) ==
    {MkEntity(type, c, g,
              Scale(InitialEnergyBase(type) * EU, g.size, 100) + je,
              ((MaxAgeBase(type) * g.lifespan) \div 100) + ja)
        : je \in energyDraws, ja \in ageDraws}

EntityWithGenes(type, c, g) == EntityDrawn(type, c, g, EnergyJitter, AgeJitter)

\* new Entity(type, x, y[, z]) of variant v
NewEntity(v, type, c) ==
    IF v = "complete"
    THEN UNION {EntityWithGenes(type, c, g) : g \in RandomGenetics}
    ELSE {MkEntity(type, c, DefaultGenes, e, a)
            : e \in SimpleInitialEnergy(type), a \in SimpleMaxAge(type)}

\* new Entity(type, x, y, parent1, parent2)
NewChild(type, c, p1, p2) ==
    UNION {EntityWithGenes(type, c, g)
             : g \in InheritedGenetics(p1.genetics, p2.genetics)}

\* updateLifeStage()
updateLifeStage(e) ==
    IF 20 * e.age >= e.elderAge THEN [e EXCEPT !.lifeStage = "elder"]
    ELSE IF 20 * e.age >= e.maturityAge THEN [e EXCEPT !.lifeStage = "adult"]
    ELSE e

\* canReproduce(): cyclesSinceReproduction > 10 / fertility
canReproduce(e) ==
    e.lifeStage = "adult" /\ e.cyclesSinceReproduction * e.genetics.fertility > 1000

\* addToTrail(x, y): only the length of the trail is kept
addToTrail(e) ==
    [e EXCEPT !.trail = IF e.trail + 1 > e.maxTrail THEN e.trail ELSE e.trail + 1]

\* remember(x, y, type, value): only the length of the memory is kept
remember(e) ==
    [e EXCEPT !.memory = IF e.memory + 1 > e.maxMemory THEN e.memory ELSE e.memory + 1]

\* getEffectiveSpeed(), in 1/100000
getEffectiveSpeed(e) ==
    LET s0 == e.genetics.speed * 1000
        s1 == IF e.lifeStage = "juvenile" THEN (s0 * 7) \div 10 ELSE s0
        s2 == IF e.lifeStage = "elder" THEN (s1 * 5) \div 10 ELSE s1
    IN  IF e.isInfected THEN (s2 * 6) \div 10 ELSE s2

\* "Math.random() < chance * entity.getEffectiveSpeed()", chance in 1/100
SpeedRoll(chancePct, e) == Chance(chancePct * getEffectiveSpeed(e), 10000000)

-----------------------------------------------------------------------------
(* Terrain *)

\* new TerrainCell(type)
TerrainCell(type) ==
    [type |-> type,
     fertility |-> IF type = T_FERTILE THEN 1500
                   ELSE IF type = T_BARREN THEN 300 ELSE 1000,
     moisture |-> IF type = T_WATER THEN 1000 ELSE 500]

-----------------------------------------------------------------------------
(* The world a rule works on: w = [grid, ents, atm, terr, ev].  ev collects  *)
(* what the rule did (births, the death) for the history variable obs.      *)

NoEv == [repro |-> <<>>, death |-> <<>>, fed |-> <<>>, tried |-> <<>>]

World == [grid |-> grid, ents |-> ents, atm |-> atmosphere, terr |-> terrain,
          ev |-> NoEv]

\* The reference a new object gets: any unused one; the least, as references
\* are not observable
Alloc(w) == CHOOSE r \in Refs : w.ents[r] = NoEnt /\ \A q \in Refs : w.ents[q] = NoEnt => r <= q

At(w, c) == w.grid[c]
Occupied(w, c) == w.grid[c] # 0
EntAt(w, c) == w.ents[w.grid[c]]
Pos(e) == <<e.x, e.y, e.z>>

\* this.grid[..] = new object e
Place(w, c, e) ==
    LET r == Alloc(w) IN [w EXCEPT !.ents[r] = e, !.grid[c] = r]

\* this.grid[..] = null
Clear(w, c) == [w EXCEPT !.grid[c] = 0]

AddEnergy(w, r, d) == [w EXCEPT !.ents[r].energy = @ + d]

\* atmosphere.o2 = Math.max(0, o2 - a); atmosphere.co2 = Math.min(100, co2 + b)
Respire(w, a, b) ==
    [w EXCEPT !.atm.o2 = DSub(@, Dbl(a)), !.atm.co2 = AtMost100(DAdd(@, Dbl(b)))]

\* atmosphere.co2 = Math.max(0, co2 - a); atmosphere.o2 = Math.min(100, o2 + b)
Photosynthesize(w, a, b) ==
    [w EXCEPT !.atm.co2 = DSub(@, Dbl(a)), !.atm.o2 = AtMost100(DAdd(@, Dbl(b)))]

\* an emission without Math.min(100, ..)
EmitCO2Unclamped(w, b) == [w EXCEPT !.atm.co2 = DAdd(@, Dbl(b))]

\* atmosphere.co2 = Math.min(100, co2 + b)
EmitCO2(w, b) == [w EXCEPT !.atm.co2 = AtMost100(DAdd(@, Dbl(b)))]

\* a movement that forgets "entity.x = ..; entity.y = .."
MoveWriteStale(w, r, from, to) ==
    [w EXCEPT !.grid[from] = 0, !.grid[to] = r]

\* the grid write of a movement, the variant's three (four) assignments:
\* grid[y][x] = null; grid[target] = entity; entity.x = ..; entity.y = ..
MoveWrite(w, r, from, to) ==
    [w EXCEPT !.grid[from] = 0, !.grid[to] = r,
              !.ents[r].x = to[1], !.ents[r].y = to[2], !.ents[r].z = to[3]]

-----------------------------------------------------------------------------
(* Spatial queries *)

InGrid(c) == c \in CellsOf(variant)

\* getNeighbors(x, y[, z]): the cells at Chebyshev distance 1, clipped
getNeighbors(c) ==
    {n \in CellsOf(variant) :
        /\ n # c
        /\ Abs(n[1] - c[1]) <= 1 /\ Abs(n[2] - c[2]) <= 1 /\ Abs(n[3] - c[3]) <= 1}

\* the square of the given radius around c, without c (Complete Edition)
Around(c, radius) ==
    {n \in CellsOf(variant) :
        /\ n # c
        /\ Abs(n[1] - c[1]) <= radius /\ Abs(n[2] - c[2]) <= radius}

Passable(w, n, avoidWater) ==
    /\ w.terr[n].type # T_MOUNTAIN
    /\ avoidWater => w.terr[n].type # T_WATER

\* a findEmptyNeighbor that does not look whether the cell is empty
findNeighborEmptyOrNot(w, c, avoidWater) ==
    IF variant = "complete"
    THEN {n \in getNeighbors(c) : Passable(w, n, avoidWater)}
    ELSE getNeighbors(c)

\* findEmptyNeighbor: the cells it may return (none: null)
findEmptyNeighbor(w, c, avoidWater) ==
    IF variant = "complete"
    THEN {n \in getNeighbors(c) : ~Occupied(w, n) /\ Passable(w, n, avoidWater)}
    ELSE {n \in getNeighbors(c) : ~Occupied(w, n)}

\* findNeighborOfType: the cells it may return
findNeighborOfType(w, c, type) ==
    {n \in getNeighbors(c) : Occupied(w, n) /\ EntAt(w, n).type = type}

\* findEntityInRange: the closest target, ties by scan order (dy, then dx)
findEntityInRange(w, c, type, range, perception) ==
    LET R == ((range * perception) + 99) \div 100
        D2(n) == (n[1] - c[1]) * (n[1] - c[1]) + (n[2] - c[2]) * (n[2] - c[2])
        T == {n \in Around(c, R) :
                Occupied(w, n) /\ EntAt(w, n).type = type /\ D2(n) <= R * R}
        Before(a, b) == \/ D2(a) < D2(b)
                        \/ D2(a) = D2(b) /\ a[2] < b[2]
                        \/ D2(a) = D2(b) /\ a[2] = b[2] /\ a[1] <= b[1]
    IN  {n \in T : \A m \in T : Before(n, m)}

\* a countNearbyOfType that does not skip the cell in the middle
countNearbyOfTypeAndSelf(w, c, type, radius) ==
    Cardinality({n \in Around(c, radius) \cup {c} : Occupied(w, n) /\ EntAt(w, n).type = type})

\* countNearbyOfType
countNearbyOfType(w, c, type, radius) ==
    Cardinality({n \in Around(c, radius) : Occupied(w, n) /\ EntAt(w, n).type = type})

ColonyRadius == 2
MateRadius == 2

\* getColonyBonus, in 1/1000: min(count * (0.5 / 5), 0.5)
getColonyBonus(w, c, type) ==
    Min(countNearbyOfType(w, c, type, ColonyRadius) * 100, 500)

\* findColonyBiasedMove: with probability 0.3 any empty neighbour, else a
\* neighbour whose score plus a jitter in [0, 2) is the greatest
findColonyBiasedMove(w, c, type) ==
    LET E == findEmptyNeighbor(w, c, TRUE)
        score(n) == countNearbyOfType(w, n, type, ColonyRadius)
        best == {n \in E : \A m \in E : score(n) + 2 > score(m)}
    IN  E \cup best

MateMinEnergy == 40

\* a findMate that does not look at the candidate's energy
MateEligibleAnyEnergy(e, type) ==
    e.type = type /\ canReproduce(e)

\* the test findMate applies to a candidate
MateEligible(e, type) ==
    e.type = type /\ canReproduce(e) /\ e.energy > MateMinEnergy * EU

\* findMate: the cells it may return
findMate(w, c, type, radius) ==
    {n \in Around(c, radius) : Occupied(w, n) /\ MateEligible(EntAt(w, n), type)}

\* moveToward(entity, tx, ty) / moveAwayFrom(entity, tx, ty) with the sign
\* of the step: the cells it may return
StepDir(w, e, dx, dy) ==
    LET n == <<e.x + dx, e.y + dy, e.z>>
    IN  IF InGrid(n) /\ ~Occupied(w, n) /\ Passable(w, n, TRUE)
        THEN {n}
        ELSE findEmptyNeighbor(w, Pos(e), TRUE)

moveToward(w, e, t) == StepDir(w, e, Sign(t[1] - e.x), Sign(t[2] - e.y))
moveAwayFrom(w, e, t) == StepDir(w, e, Sign(e.x - t[1]), Sign(e.y - t[2]))

-----------------------------------------------------------------------------
(* Complete Edition: settings (this.settings), energies in 1/1000,          *)
(* chances in 1/100                                                         *)

Settings ==
    [plant |-> [energyCost |-> 200, reproEnergy |-> 70 * EU, spreadRadius |-> 4,
                photosynthesisRate |-> 600],
     herbivore |-> [energyCost |-> 500, foodEnergy |-> 35 * EU,
                    reproEnergy |-> 75 * EU, moveChance |-> 35],
     carnivore |-> [energyCost |-> 700, huntEnergy |-> 70 * EU,
                    reproEnergy |-> 90 * EU, moveChance |-> 45],
     omnivore |-> [energyCost |-> 600, plantEnergy |-> 20 * EU, meatEnergy |-> 50 * EU,
                   reproEnergy |-> 85 * EU, moveChance |-> 40],
     apexPredator |-> [energyCost |-> 1000, huntEnergy |-> 100 * EU,
                       reproEnergy |-> 120 * EU, moveChance |-> 50],
     parasite |-> [energyCost |-> 300, drainRate |-> 2 * EU,
                   reproEnergy |-> 50 * EU, moveChance |-> 20],
     disease |-> [damagePerTick |-> 1 * EU, duration |-> 50, immuneDuration |-> 200]]

\* the reproEnergy a species is configured with (the decomposer's is the
\* literal 50 of its rule)
ReproEnergyOf(type) ==
    CASE type = PLANT -> Settings.plant.reproEnergy
      [] type = HERBIVORE -> Settings.herbivore.reproEnergy
      [] type = CARNIVORE -> Settings.carnivore.reproEnergy
      [] type = OMNIVORE -> Settings.omnivore.reproEnergy
      [] type = APEX_PREDATOR -> Settings.apexPredator.reproEnergy
      [] type = PARASITE -> Settings.parasite.reproEnergy
      [] OTHER -> 50 * EU

\* updateTime(): timeOfDay = (generation % dayLength) / dayLength;
\* isNight = timeOfDay < 0.25 || timeOfDay > 0.75
IsNight == (generation % 100) < 25 \/ (generation % 100) > 75

\* getSunlightModifier(), in 1/1000
getSunlightModifier ==
    LET m0 == IF IsNight THEN 200 ELSE 1000
        m1 == IF clock.currentSeason = "summer" THEN (m0 * 13) \div 10
              ELSE IF clock.currentSeason = "winter" THEN (m0 * 5) \div 10 ELSE m0
    IN  IF clock.weather = "rain" THEN (m1 * 6) \div 10
        ELSE IF clock.weather = "storm" THEN (m1 * 3) \div 10 ELSE m1

-----------------------------------------------------------------------------
(* Steps shared by the Complete Edition's rules *)

\* the movement block: addToTrail(x, y); grid writes; position update
DoMove(w, r, from, to) ==
    LET w1 == [w EXCEPT !.ents[r] = addToTrail(@)]
    IN  MoveWrite(w1, r, from, to)

\* age++; cyclesSinceReproduction++; updateLifeStage()
Grow(w, r) ==
    [w EXCEPT !.ents[r] =
        updateLifeStage([@ EXCEPT !.age = @ + 1,
                                  !.cyclesSinceReproduction = @ + 1])]

\* a death that writes the residue to the cell of the worklist entry
DeathCellOfEntry(e, c) == c

\* the cell a dying entity's residue is written to: its current position
DeathCell(e, c) == Pos(e)

\* a death check that overlooks old age
DyingOfExhaustion(e) == e.energy <= 0

\* the death check of a rule
Dying(e) == e.energy <= 0 \/ e.age > e.maxAge

\* Death of a species that leaves DeadMatter with the given energy; the
\* residue is a new Entity(DEAD_MATTER, ..) with the trail copied
DieToDeadMatter(w, r, c, residue) ==
    LET e == w.ents[r]
        d == DeathCell(e, c)
    IN  {[Place(w, d, [n EXCEPT !.energy = residue, !.trail = e.trail])
            EXCEPT !.ev.death = <<d>>]
           : n \in NewEntity("complete", DEAD_MATTER, d)}

\* Death of a species that leaves nothing
Vanish(w, r, c) ==
    LET d == DeathCell(w.ents[r], c)
    IN  {[Clear(w, d) EXCEPT !.ev.death = <<d>>]}

\* the record of a feeding, for obs: the cell of the food, the energy the
\* food held and the energy the eater gained
FedEv(w, p, gain) == <<[cell |-> p, food |-> EntAt(w, p).energy, gain |-> gain]>>

\* the record of a reproduction attempt, for obs: the entity r of world w
\* has passed the tests that come before the search for an empty cell, with
\* the entities of the cells M as candidate mates.  crowded: no cell next to
\* r is empty.
Tried(w, r, M) ==
    LET e == w.ents[r]
        seen(q) == [ref |-> q, energy |-> w.ents[q].energy,
                    offspring |-> w.ents[q].offspring,
                    cycles |-> w.ents[q].cyclesSinceReproduction]
    IN  [w EXCEPT !.ev.tried =
            <<[self |-> seen(r),
               mates |-> {seen(At(w, m)) : m \in M},
               crowded |-> \A n \in getNeighbors(Pos(e)) : w.grid[n] # 0,
               refs |-> {w.grid[n] : n \in AllCells}]>>]

\* the records of a birth, for obs
ReproEv(type, p, pe, m, me) ==
    <<[type |-> type, parentEnergy |-> pe, hasMate |-> (m # 0), mateEnergy |-> me,
       parent |-> p, mate |-> m]>>

\* The reproduction block of the animals that need a mate: threshold,
\* findMate, placement, debits.  cells(w, c) gives the placement candidates.
MatedReproduction(w, r, type, threshold, radius, cells(_, _), debit, mateDebit, mateCounts) ==
    LET e == w.ents[r]
        mates == findMate(w, Pos(e), type, radius)
        empties == cells(w, Pos(e))
        w0 == Tried(w, r, mates)
    IN  IF ~(e.energy > threshold /\ canReproduce(e)) \/ mates = {}
        THEN {w}
        ELSE IF empties = {}
        THEN {w0}
        ELSE UNION {
               LET mr == At(w, m)
                   me == w.ents[mr]
               IN  {[Place(w0, t, child) EXCEPT
                        !.ents[r].energy = @ - debit,
                        !.ents[r].offspring = @ + 1,
                        !.ents[r].cyclesSinceReproduction = 0,
                        !.ents[mr].energy = @ - mateDebit,
                        !.ents[mr].offspring = IF mateCounts THEN @ + 1 ELSE @,
                        !.ev.repro = ReproEv(type, r, e.energy, mr, me.energy)]
                     : child \in NewChild(type, t, e, me)}
               : m \in mates, t \in empties}


-----------------------------------------------------------------------------
(* Complete Edition: processDisease and the rules of plants and herbivores *)

\* processDisease without the test of the neighbour's immunity
processDiseaseIgnoringImmunity(w, r) ==
    LET e == w.ents[r]
        N == {n \in getNeighbors(Pos(e)) :
                /\ Occupied(w, n)
                /\ ~EntAt(w, n).isInfected
                /\ EntAt(w, n).type \notin {PLANT, DEAD_MATTER}}
        \* Math.random() < spreadChance * (1 - immunity)
        catches(n) == Chance(15 * (100 - EntAt(w, n).genetics.immunity), 10000)
        spreads == {S \in SUBSET N : \A n \in N : (n \in S) \in catches(n)}
        hit(S) == {w.grid[n] : n \in S}
        recover(x) == IF x.diseaseTimer <= 0
                      THEN [x EXCEPT !.isInfected = FALSE, !.isImmune = TRUE,
                                     !.immuneTimer = Settings.disease.immuneDuration]
                      ELSE x
        immunity(x) == IF ~x.isImmune THEN x
                       ELSE IF x.immuneTimer - 1 <= 0
                            THEN [x EXCEPT !.immuneTimer = @ - 1, !.isImmune = FALSE]
                            ELSE [x EXCEPT !.immuneTimer = @ - 1]
        sick == [e EXCEPT !.energy = @ - Settings.disease.damagePerTick,
                          !.diseaseTimer = @ - 1]
    IN  IF e.isInfected
        THEN {[w EXCEPT !.ents =
                  [q \in Refs |->
                      IF q = r THEN immunity(recover(sick))
                      ELSE IF q \in hit(S)
                           THEN [w.ents[q] EXCEPT !.isInfected = TRUE,
                                     !.diseaseTimer = Settings.disease.duration]
                           ELSE w.ents[q]]]
                : S \in spreads}
        ELSE {[w EXCEPT !.ents[r] = immunity(@)]}

\* processDisease without the test that the neighbour is not infected yet
processDiseaseReinfecting(w, r) ==
    LET e == w.ents[r]
        N == {n \in getNeighbors(Pos(e)) :
                /\ Occupied(w, n)
                /\ ~EntAt(w, n).isImmune
                /\ EntAt(w, n).type \notin {PLANT, DEAD_MATTER}}
        \* Math.random() < spreadChance * (1 - immunity)
        catches(n) == Chance(15 * (100 - EntAt(w, n).genetics.immunity), 10000)
        spreads == {S \in SUBSET N : \A n \in N : (n \in S) \in catches(n)}
        hit(S) == {w.grid[n] : n \in S}
        recover(x) == IF x.diseaseTimer <= 0
                      THEN [x EXCEPT !.isInfected = FALSE, !.isImmune = TRUE,
                                     !.immuneTimer = Settings.disease.immuneDuration]
                      ELSE x
        immunity(x) == IF ~x.isImmune THEN x
                       ELSE IF x.immuneTimer - 1 <= 0
                            THEN [x EXCEPT !.immuneTimer = @ - 1, !.isImmune = FALSE]
                            ELSE [x EXCEPT !.immuneTimer = @ - 1]
        sick == [e EXCEPT !.energy = @ - Settings.disease.damagePerTick,
                          !.diseaseTimer = @ - 1]
    IN  IF e.isInfected
        THEN {[w EXCEPT !.ents =
                  [q \in Refs |->
                      IF q = r THEN immunity(recover(sick))
                      ELSE IF q \in hit(S)
                           THEN [w.ents[q] EXCEPT !.isInfected = TRUE,
                                     !.diseaseTimer = Settings.disease.duration]
                           ELSE w.ents[q]]]
                : S \in spreads}
        ELSE {[w EXCEPT !.ents[r] = immunity(@)]}

processDisease(w, r) ==
    LET e == w.ents[r]
        N == {n \in getNeighbors(Pos(e)) :
                /\ Occupied(w, n)
                /\ ~EntAt(w, n).isInfected /\ ~EntAt(w, n).isImmune
                /\ EntAt(w, n).type \notin {PLANT, DEAD_MATTER}}
        \* Math.random() < spreadChance * (1 - immunity)
        catches(n) == Chance(15 * (100 - EntAt(w, n).genetics.immunity), 10000)
        spreads == {S \in SUBSET N : \A n \in N : (n \in S) \in catches(n)}
        hit(S) == {w.grid[n] : n \in S}
        recover(x) == IF x.diseaseTimer <= 0
                      THEN [x EXCEPT !.isInfected = FALSE, !.isImmune = TRUE,
                                     !.immuneTimer = Settings.disease.immuneDuration]
                      ELSE x
        immunity(x) == IF ~x.isImmune THEN x
                       ELSE IF x.immuneTimer - 1 <= 0
                            THEN [x EXCEPT !.immuneTimer = @ - 1, !.isImmune = FALSE]
                            ELSE [x EXCEPT !.immuneTimer = @ - 1]
        sick == [e EXCEPT !.energy = @ - Settings.disease.damagePerTick,
                          !.diseaseTimer = @ - 1]
    IN  IF e.isInfected
        THEN {[w EXCEPT !.ents =
                  [q \in Refs |->
                      IF q = r THEN immunity(recover(sick))
                      ELSE IF q \in hit(S)
                           THEN [w.ents[q] EXCEPT !.isInfected = TRUE,
                                     !.diseaseTimer = Settings.disease.duration]
                           ELSE w.ents[q]]]
                : S \in spreads}
        ELSE {[w EXCEPT !.ents[r] = immunity(@)]}

processPlant(w, r, c) ==
    LET terr == w.terr[c]
        colonyBonus == getColonyBonus(w, c, PLANT)
        eff == w.ents[r].genetics.efficiency
        rate == Scale(Scale(Scale(Scale(Scale(
                    w.atm.sunlight * Settings.plant.photosynthesisRate,
                    getSunlightModifier, 1000), terr.fertility, 1000),
                    terr.moisture, 1000), eff, 100), 1000 + (colonyBonus \div 5), 1000)
        w1 == IF Above(w.atm.co2, 3)
              THEN AddEnergy(Photosynthesize(w, 200, 400), r, rate)
              ELSE AddEnergy(w, r, -500)
        w2 == IF clock.currentSeason = "winter" THEN AddEnergy(w1, r, -300) ELSE w1
        cost == Scale(Scale(Settings.plant.energyCost, 1000 - (colonyBonus \div 10), 1000),
                      100, eff)
        w3 == Grow(AddEnergy(w2, r, -Max(100, cost)), r)
        \* Math.random() < 0.08: a root is added to the trail
        W4 == {w3, [w3 EXCEPT !.ents[r] = addToTrail(@)]}
        Reproduction(x) ==
            LET e == x.ents[r]
                nearbyPlants == countNearbyOfType(x, c, PLANT, Settings.plant.spreadRadius)
                empties == findColonyBiasedMove(x, c, PLANT)
                mates == findMate(x, c, PLANT, 3)
                parents == IF mates = {} THEN {r} ELSE {At(x, m) : m \in mates}
                x0 == Tried(x, r, mates)
                born == UNION {
                          {[Place(x0, t, child) EXCEPT
                               !.ents[r].energy =
                                   @ - Scale(Settings.plant.reproEnergy, 3, 10),
                               !.ents[r].offspring = @ + 1,
                               !.ents[r].cyclesSinceReproduction = 0,
                               !.ev.repro = ReproEv(PLANT, r, e.energy,
                                               IF p = r THEN 0 ELSE p,
                                               x.ents[p].energy)]
                             : child \in NewChild(PLANT, t, e, x.ents[p])}
                          : t \in empties, p \in parents}
            IN  IF /\ e.energy > Scale(Settings.plant.reproEnergy, e.genetics.size, 100)
                   /\ canReproduce(e) /\ nearbyPlants > 0 /\ terr.fertility > 300
                THEN UNION {IF ~roll THEN {x}
                            ELSE IF empties # {} THEN born ELSE {x0}
                              : roll \in Chance(3 * e.genetics.fertility * terr.fertility,
                                                1000000)}
                ELSE {x}
        Death(x) ==
            IF Dying(x.ents[r])
            THEN DieToDeadMatter(x, r, c, Scale(x.ents[r].energy, 3, 10) + 15 * EU)
            ELSE {x}
    IN  Bind(Bind(W4, Reproduction), Death)

processHerbivore(w, r, c) ==
    LET colonyBonus == getColonyBonus(w, c, HERBIVORE)
        Respiration(x) ==
            IF Above(x.atm.o2, 8) THEN Respire(x, 120, 80)
            ELSE AddEnergy(x, r, -Scale(3 * EU, 1000 - (colonyBonus \div 2), 1000))
        percep == w.ents[r].genetics.perception
        predator == findEntityInRange(w, c, CARNIVORE, 3, percep)
        apex == findEntityInRange(w, c, APEX_PREDATOR, 4, percep)
        threat == IF predator # {} THEN predator ELSE apex
        Alarm(x) ==
            IF threat # {} /\ ~x.ents[r].fleeing
            THEN [x EXCEPT !.ents[r] = remember([@ EXCEPT !.fleeing = TRUE, !.fleeTimer = 10])]
            ELSE x
        Eating(x) ==
            LET e == x.ents[r]
                plants == findNeighborOfType(x, c, PLANT)
            IN  IF ~e.fleeing /\ plants # {} /\ 10 * e.energy < 8 * e.maxEnergy
                THEN {[Clear(x, p) EXCEPT
                          !.ents[r].energy =
                              @ + Scale(Min(EntAt(x, p).energy, Settings.herbivore.foodEnergy),
                                        e.genetics.efficiency, 100),
                          !.ents[r].foodEaten = @ + 1,
                          !.ev.fed = FedEv(x, p, Scale(Min(EntAt(x, p).energy,
                                                           Settings.herbivore.foodEnergy),
                                                       e.genetics.efficiency, 100))]
                        : p \in plants}
                ELSE {x}
        Movement(x) ==
            LET e == x.ents[r]
                x1 == IF e.fleeing
                      THEN [x EXCEPT !.ents[r].fleeTimer = @ - 1,
                                     !.ents[r].fleeing = (e.fleeTimer - 1 > 0)]
                      ELSE x
                food == findEntityInRange(x, c, PLANT, 4, percep)
                first == IF e.fleeing
                         THEN IF threat # {}
                              THEN UNION {moveAwayFrom(x, e, t) : t \in threat} ELSE {}
                         ELSE IF 2 * e.energy < e.maxEnergy /\ food # {}
                              THEN UNION {moveToward(x, e, t) : t \in food} ELSE {}
                targets == IF first # {} THEN first
                           ELSE findColonyBiasedMove(x, c, HERBIVORE)
            IN  UNION {IF ~roll THEN {x}
                       ELSE IF targets = {} THEN {x1}
                       ELSE {DoMove(x1, r, c, t) : t \in targets}
                         : roll \in SpeedRoll(IF e.fleeing THEN 90
                                              ELSE Settings.herbivore.moveChance, e)}
        Upkeep(x) ==
            LET e == x.ents[r]
                cost == Scale(IF e.lifeStage = "elder"
                              THEN (Settings.herbivore.energyCost * 13) \div 10
                              ELSE Settings.herbivore.energyCost,
                              100, e.genetics.efficiency)
            IN  Grow(AddEnergy(x, r, (colonyBonus \div 10)
                                     - Max(200, cost - (colonyBonus \div 10))), r)
        Reproduction(x) ==
            MatedReproduction(x, r, HERBIVORE, Settings.herbivore.reproEnergy, MateRadius,
                LAMBDA y, p : findColonyBiasedMove(y, p, HERBIVORE),
                Scale(Settings.herbivore.reproEnergy, 35, 100),
                Scale(Settings.herbivore.reproEnergy, 25, 100), TRUE)
        Death(x) ==
            IF Dying(x.ents[r]) THEN DieToDeadMatter(x, r, c, 30 * EU) ELSE {x}
        W1 == {Alarm(Respiration(x)) : x \in processDisease(w, r)}
        W2 == {Upkeep(x) : x \in Bind(Bind(W1, Eating), Movement)}
    IN  Bind(Bind(W2, Reproduction), Death)

-----------------------------------------------------------------------------
(* Complete Edition: the hunters *)

\* One round of a hunting loop: a neighbour of the prey type is drawn; when
\* the hunter is hungry (energy < maxEnergy * hunger/10) and the hunt
\* succeeds the prey's cell gets a new DeadMatter of energy
\* prey.energy * resPct/100.  done tells the loop to break.
HuntOne(x, r, c, preyType, hunger, success(_, _), gain(_, _), resPct) ==
    LET e == x.ents[r]
        preys == findNeighborOfType(x, c, preyType)
        kill(p) ==
            {[Place(x, p, [d EXCEPT !.energy = Scale(EntAt(x, p).energy, resPct, 100)])
                EXCEPT !.ents[r].energy = @ + gain(e, EntAt(x, p)),
                       !.ents[r].kills = @ + 1,
                       !.ents[r].foodEaten = @ + 1,
                       !.ev.fed = FedEv(x, p, gain(e, EntAt(x, p)))]
               : d \in NewEntity("complete", DEAD_MATTER, p)}
    IN  IF preys = {} \/ ~(10 * e.energy < hunger * e.maxEnergy)
        THEN {[w |-> x, done |-> FALSE]}
        ELSE UNION {UNION {IF hit THEN {[w |-> k, done |-> TRUE] : k \in kill(p)}
                           ELSE {[w |-> x, done |-> FALSE]}
                             : hit \in Chance(success(e, EntAt(x, p)), 100000)}
                      : p \in preys}

\* the search of the movement block: the first prey type in range decides
Pursuit(x, r, c, preyTypes, range) ==
    LET e == x.ents[r]
        seen(i) == findEntityInRange(x, c, preyTypes[i], range, e.genetics.perception)
        found == {i \in 1 .. Len(preyTypes) : seen(i) # {}}
    IN  IF found = {} THEN {}
        ELSE LET i == CHOOSE j \in found : \A k \in found : j <= k
             IN  UNION {moveToward(x, e, t) : t \in seen(i)}

processCarnivore(w, r, c) ==
    LET packBonus == getColonyBonus(w, c, CARNIVORE)
        Respiration(x) ==
            IF Above(x.atm.o2, 8) THEN Respire(x, 150, 120)
            ELSE AddEnergy(x, r, -Scale(4 * EU, 1000 - (packBonus \div 2), 1000))
        success(e, p) == 60000 + packBonus * 20
                         + (e.genetics.speed - p.genetics.speed) * 200
                         - p.genetics.camouflage * 200
        gain(e, p) == Scale(Scale(Min(Scale(p.energy, 8, 10), Settings.carnivore.huntEnergy),
                                  e.genetics.efficiency, 100),
                            1000 + (packBonus \div 5), 1000)
        Hunting(x) ==
            UNION {IF h.done THEN {h.w}
                   ELSE {k.w : k \in HuntOne(h.w, r, c, OMNIVORE, 9, success, gain, 20)}
                     : h \in HuntOne(x, r, c, HERBIVORE, 9, success, gain, 20)}
        Movement(x) ==
            LET e == x.ents[r]
                first == IF 10 * e.energy < 6 * e.maxEnergy
                         THEN Pursuit(x, r, c, <<HERBIVORE, OMNIVORE>>, 5) ELSE {}
                targets == IF first # {} THEN first
                           ELSE findColonyBiasedMove(x, c, CARNIVORE)
            IN  UNION {IF roll /\ targets # {}
                       THEN {DoMove(x, r, c, t) : t \in targets} ELSE {x}
                         : roll \in SpeedRoll(Settings.carnivore.moveChance, e)}
        Upkeep(x) ==
            LET e == x.ents[r]
                cost == Scale(IF e.lifeStage = "elder"
                              THEN (Settings.carnivore.energyCost * 14) \div 10
                              ELSE Settings.carnivore.energyCost,
                              100, e.genetics.efficiency)
            IN  Grow(AddEnergy(x, r, ((packBonus * 8) \div 100)
                                     - Max(300, cost - ((packBonus * 15) \div 100))), r)
        Reproduction(x) ==
            MatedReproduction(x, r, CARNIVORE, Settings.carnivore.reproEnergy, MateRadius,
                LAMBDA y, p : findColonyBiasedMove(y, p, CARNIVORE),
                Scale(Settings.carnivore.reproEnergy, 35, 100),
                Scale(Settings.carnivore.reproEnergy, 25, 100), TRUE)
        Death(x) ==
            IF Dying(x.ents[r]) THEN DieToDeadMatter(x, r, c, 35 * EU) ELSE {x}
        W1 == {Respiration(x) : x \in processDisease(w, r)}
        W2 == {Upkeep(x) : x \in Bind(Bind(W1, Hunting), Movement)}
    IN  Bind(Bind(W2, Reproduction), Death)

processOmnivore(w, r, c) ==
    LET colonyBonus == getColonyBonus(w, c, OMNIVORE)
        Respiration(x) ==
            IF Above(x.atm.o2, 8) THEN Respire(x, 130, 100)
            ELSE AddEnergy(x, r, -Scale(3500, 1000 - (colonyBonus \div 2), 1000))
        apex == findEntityInRange(w, c, APEX_PREDATOR, 4, w.ents[r].genetics.perception)
        Alarm(x) ==
            IF apex # {} /\ ~x.ents[r].fleeing
            THEN [x EXCEPT !.ents[r].fleeing = TRUE, !.ents[r].fleeTimer = 8]
            ELSE x
        success(e, p) == 40000 + (e.genetics.speed - p.genetics.speed) * 300
        gain(e, p) == Scale(Min(Scale(p.energy, 7, 10), Settings.omnivore.meatEnergy),
                            e.genetics.efficiency, 100)
        Eating(x) ==
            LET e == x.ents[r]
                plants == findNeighborOfType(x, c, PLANT)
                preys == findNeighborOfType(x, c, HERBIVORE)
                deads == findNeighborOfType(x, c, DEAD_MATTER)
                eat(p, amount) ==
                    [Clear(x, p) EXCEPT
                        !.ents[r].energy = @ + Scale(amount, e.genetics.efficiency, 100),
                        !.ents[r].foodEaten = @ + 1,
                        !.ev.fed = FedEv(x, p, Scale(amount, e.genetics.efficiency, 100))]
            IN  IF e.fleeing THEN {x}
                ELSE IF deads # {} /\ 10 * e.energy < 9 * e.maxEnergy
                THEN {eat(p, Scale(EntAt(x, p).energy, 6, 10)) : p \in deads}
                ELSE IF plants # {} /\ 10 * e.energy < 7 * e.maxEnergy
                THEN {eat(p, Min(EntAt(x, p).energy, Settings.omnivore.plantEnergy))
                        : p \in plants}
                ELSE {h.w : h \in HuntOne(x, r, c, HERBIVORE, 5, success, gain, 20)}
        Movement(x) ==
            LET e == x.ents[r]
                flee == e.fleeing /\ apex # {}
                x1 == IF flee
                      THEN [x EXCEPT !.ents[r].fleeTimer = @ - 1,
                                     !.ents[r].fleeing = (e.fleeTimer - 1 > 0)]
                      ELSE x
                targets == IF flee THEN UNION {moveAwayFrom(x, e, t) : t \in apex}
                           ELSE findColonyBiasedMove(x, c, OMNIVORE)
            IN  UNION {IF ~roll THEN {x}
                       ELSE IF targets = {} THEN {x1}
                       ELSE {DoMove(x1, r, c, t) : t \in targets}
                         : roll \in SpeedRoll(IF e.fleeing THEN 85
                                              ELSE Settings.omnivore.moveChance, e)}
        Upkeep(x) ==
            LET cost == Scale(Settings.omnivore.energyCost, 100,
                              x.ents[r].genetics.efficiency)
            IN  Grow(AddEnergy(x, r, -Max(250, cost - (colonyBonus \div 10))), r)
        Reproduction(x) ==
            MatedReproduction(x, r, OMNIVORE, Settings.omnivore.reproEnergy, MateRadius,
                LAMBDA y, p : findColonyBiasedMove(y, p, OMNIVORE),
                Scale(Settings.omnivore.reproEnergy, 35, 100),
                Scale(Settings.omnivore.reproEnergy, 25, 100), FALSE)
        Death(x) ==
            IF Dying(x.ents[r]) THEN DieToDeadMatter(x, r, c, 30 * EU) ELSE {x}
        W1 == {Alarm(Respiration(x)) : x \in processDisease(w, r)}
        W2 == {Upkeep(x) : x \in Bind(Bind(W1, Eating), Movement)}
    IN  Bind(Bind(W2, Reproduction), Death)

processApexPredator(w, r, c) ==
    LET packBonus == getColonyBonus(w, c, APEX_PREDATOR)
        Respiration(x) ==
            IF Above(x.atm.o2, 10) THEN Respire(x, 200, 180)
            ELSE AddEnergy(x, r, -Scale(5 * EU, 1000 - ((packBonus * 3) \div 10), 1000))
        success(e, p) == 70000 + packBonus * 15 + e.genetics.speed * 100
                         - p.genetics.speed * 50
        gain(e, p) == Scale(Min(Scale(p.energy, 85, 100), Settings.apexPredator.huntEnergy),
                            e.genetics.efficiency, 100)
        Hunting(x) ==
            UNION {IF h1.done THEN {h1.w}
                   ELSE UNION {IF h2.done THEN {h2.w}
                               ELSE {h3.w : h3 \in HuntOne(h2.w, r, c, CARNIVORE, 9,
                                                          success, gain, 15)}
                                 : h2 \in HuntOne(h1.w, r, c, OMNIVORE, 9,
                                                  success, gain, 15)}
                     : h1 \in HuntOne(x, r, c, HERBIVORE, 9, success, gain, 15)}
        Movement(x) ==
            LET e == x.ents[r]
                first == IF 10 * e.energy < 7 * e.maxEnergy
                         THEN Pursuit(x, r, c, <<HERBIVORE, OMNIVORE, CARNIVORE>>, 6)
                         ELSE {}
                targets == IF first # {} THEN first ELSE findEmptyNeighbor(x, c, TRUE)
            IN  UNION {IF roll /\ targets # {}
                       THEN {DoMove(x, r, c, t) : t \in targets} ELSE {x}
                         : roll \in SpeedRoll(Settings.apexPredator.moveChance, e)}
        Upkeep(x) ==
            LET cost == Scale(Settings.apexPredator.energyCost, 100,
                              x.ents[r].genetics.efficiency)
            IN  Grow(AddEnergy(x, r, -Max(500, cost)), r)
        Reproduction(x) ==
            MatedReproduction(x, r, APEX_PREDATOR, Settings.apexPredator.reproEnergy, 3,
                LAMBDA y, p : findEmptyNeighbor(y, p, TRUE),
                Scale(Settings.apexPredator.reproEnergy, 4, 10),
                Scale(Settings.apexPredator.reproEnergy, 3, 10), FALSE)
        Death(x) ==
            IF Dying(x.ents[r]) THEN DieToDeadMatter(x, r, c, 50 * EU) ELSE {x}
        W1 == {Respiration(x) : x \in processDisease(w, r)}
        W2 == {Upkeep(x) : x \in Bind(Bind(W1, Hunting), Movement)}
    IN  Bind(Bind(W2, Reproduction), Death)

-----------------------------------------------------------------------------
(* Complete Edition: parasites, decomposers, dead matter *)

\* host.parasites = host.parasites.filter(p => p !== entity)
Detach(x, h, r) ==
    [x EXCEPT !.ents[h].parasites = SelectSeq(@, LAMBDA q : q # r)]

\* processParasite without the test of the length of the host's list
processParasiteOnAnyHost(w, r, c) ==
    LET hostTypes == <<HERBIVORE, OMNIVORE, CARNIVORE>>
        \* the loop over hostTypes: the i-th type's draw, then the next type
        attach(x, i) ==
            LET cands == findNeighborOfType(x, c, hostTypes[i])
            IN  {[cell |-> p, ok |-> TRUE] : p \in cands}
        join(x, p) == [x EXCEPT !.ents[r].host = At(x, p),
                                !.ents[At(x, p)].parasites = Append(@, r)]
        FindHost(x) ==
            IF x.ents[r].host # 0 THEN {x}
            ELSE LET try3 == IF attach(x, 3) = {} THEN {x}
                             ELSE {IF a.ok THEN join(x, a.cell) ELSE x : a \in attach(x, 3)}
                     try2 == IF attach(x, 2) = {} THEN try3
                             ELSE UNION {IF a.ok THEN {join(x, a.cell)} ELSE try3
                                           : a \in attach(x, 2)}
                 IN  IF attach(x, 1) = {} THEN try2
                     ELSE UNION {IF a.ok THEN {join(x, a.cell)} ELSE try2
                                   : a \in attach(x, 1)}
        Drain(x) ==
            LET e == x.ents[r]
                h == e.host
                drain == Scale(Settings.parasite.drainRate, e.genetics.efficiency, 100)
                x1 == [x EXCEPT !.ents[h].energy = @ - drain,
                                !.ents[r].energy = @ + Scale(drain, 8, 10),
                                !.ents[r].foodEaten = @ + 1]
                \* Math.random() < 0.02 && !host.isInfected && !host.isImmune
                X2 == {x1} \cup
                      IF ~x1.ents[h].isInfected /\ ~x1.ents[h].isImmune
                      THEN {[x1 EXCEPT !.ents[h].isInfected = TRUE,
                                       !.ents[h].diseaseTimer = 40]}
                      ELSE {}
                \* "Check if host died": the parasite lets go, nothing else
                release(y) == IF y.ents[h].energy <= 0
                              THEN [Detach(y, h, r) EXCEPT !.ents[r].host = 0]
                              ELSE y
            IN  IF h # 0 /\ x.ents[h].energy > 0
                THEN {release(y) : y \in X2}
                ELSE {[x EXCEPT !.ents[r].host = 0]}
        Movement(x) ==
            LET e == x.ents[r]
                targets == findEmptyNeighbor(x, c, TRUE)
            IN  IF e.host # 0 THEN {x}
                ELSE UNION {IF roll /\ targets # {}
                            THEN {DoMove(x, r, c, t) : t \in targets} ELSE {x}
                              : roll \in SpeedRoll(Settings.parasite.moveChance, e)}
        Upkeep(x) == Grow(AddEnergy(x, r, -Settings.parasite.energyCost), r)
        Reproduction(x) ==
            LET e == x.ents[r]
                empties == findEmptyNeighbor(x, Pos(e), TRUE)
                x0 == Tried(x, r, {})
            IN  IF ~(e.energy > Settings.parasite.reproEnergy /\ canReproduce(e))
                THEN {x}
                ELSE IF empties = {}
                THEN {x0}
                ELSE UNION {{[Place(x0, t, child) EXCEPT
                                !.ents[r].energy =
                                    @ - Scale(Settings.parasite.reproEnergy, 5, 10),
                                !.ents[r].offspring = @ + 1,
                                !.ents[r].cyclesSinceReproduction = 0,
                                !.ev.repro = ReproEv(PARASITE, r, e.energy, 0, e.energy)]
                               : child \in NewChild(PARASITE, t, e, e)}
                              : t \in empties}
        Death(x) ==
            LET e == x.ents[r]
            IN  IF Dying(e)
                THEN Vanish(IF e.host # 0 THEN Detach(x, e.host, r) ELSE x, r, c)
                ELSE {x}
        W1 == {Respire(x, 30, 20) : x \in processDisease(w, r)}
        W2 == {Upkeep(x) : x \in Bind(Bind(Bind(W1, FindHost), Drain), Movement)}
    IN  Bind(Bind(W2, Reproduction), Death)

processParasite(w, r, c) ==
    LET hostTypes == <<HERBIVORE, OMNIVORE, CARNIVORE>>
        \* the loop over hostTypes: the i-th type's draw, then the next type
        attach(x, i) ==
            LET cands == findNeighborOfType(x, c, hostTypes[i])
            IN  {[cell |-> p, ok |-> Len(EntAt(x, p).parasites) < 3] : p \in cands}
        join(x, p) == [x EXCEPT !.ents[r].host = At(x, p),
                                !.ents[At(x, p)].parasites = Append(@, r)]
        FindHost(x) ==
            IF x.ents[r].host # 0 THEN {x}
            ELSE LET try3 == IF attach(x, 3) = {} THEN {x}
                             ELSE {IF a.ok THEN join(x, a.cell) ELSE x : a \in attach(x, 3)}
                     try2 == IF attach(x, 2) = {} THEN try3
                             ELSE UNION {IF a.ok THEN {join(x, a.cell)} ELSE try3
                                           : a \in attach(x, 2)}
                 IN  IF attach(x, 1) = {} THEN try2
                     ELSE UNION {IF a.ok THEN {join(x, a.cell)} ELSE try2
                                   : a \in attach(x, 1)}
        Drain(x) ==
            LET e == x.ents[r]
                h == e.host
                drain == Scale(Settings.parasite.drainRate, e.genetics.efficiency, 100)
                x1 == [x EXCEPT !.ents[h].energy = @ - drain,
                                !.ents[r].energy = @ + Scale(drain, 8, 10),
                                !.ents[r].foodEaten = @ + 1]
                \* Math.random() < 0.02 && !host.isInfected && !host.isImmune
                X2 == {x1} \cup
                      IF ~x1.ents[h].isInfected /\ ~x1.ents[h].isImmune
                      THEN {[x1 EXCEPT !.ents[h].isInfected = TRUE,
                                       !.ents[h].diseaseTimer = 40]}
                      ELSE {}
                \* "Check if host died": the parasite lets go, nothing else
                release(y) == IF y.ents[h].energy <= 0
                              THEN [Detach(y, h, r) EXCEPT !.ents[r].host = 0]
                              ELSE y
            IN  IF h # 0 /\ x.ents[h].energy > 0
                THEN {release(y) : y \in X2}
                ELSE {[x EXCEPT !.ents[r].host = 0]}
        Movement(x) ==
            LET e == x.ents[r]
                targets == findEmptyNeighbor(x, c, TRUE)
            IN  IF e.host # 0 THEN {x}
                ELSE UNION {IF roll /\ targets # {}
                            THEN {DoMove(x, r, c, t) : t \in targets} ELSE {x}
                              : roll \in SpeedRoll(Settings.parasite.moveChance, e)}
        Upkeep(x) == Grow(AddEnergy(x, r, -Settings.parasite.energyCost), r)
        Reproduction(x) ==
            LET e == x.ents[r]
                empties == findEmptyNeighbor(x, Pos(e), TRUE)
                x0 == Tried(x, r, {})
            IN  IF ~(e.energy > Settings.parasite.reproEnergy /\ canReproduce(e))
                THEN {x}
                ELSE IF empties = {}
                THEN {x0}
                ELSE UNION {{[Place(x0, t, child) EXCEPT
                                !.ents[r].energy =
                                    @ - Scale(Settings.parasite.reproEnergy, 5, 10),
                                !.ents[r].offspring = @ + 1,
                                !.ents[r].cyclesSinceReproduction = 0,
                                !.ev.repro = ReproEv(PARASITE, r, e.energy, 0, e.energy)]
                               : child \in NewChild(PARASITE, t, e, e)}
                              : t \in empties}
        Death(x) ==
            LET e == x.ents[r]
            IN  IF Dying(e)
                THEN Vanish(IF e.host # 0 THEN Detach(x, e.host, r) ELSE x, r, c)
                ELSE {x}
        W1 == {Respire(x, 30, 20) : x \in processDisease(w, r)}
        W2 == {Upkeep(x) : x \in Bind(Bind(Bind(W1, FindHost), Drain), Movement)}
    IN  Bind(Bind(W2, Reproduction), Death)

processDecomposer(w, r, c) ==
    LET colonyBonus == getColonyBonus(w, c, DECOMPOSER)
        Decompose(x) ==
            LET e == x.ents[r]
                deads == findNeighborOfType(x, c, DEAD_MATTER)
                amount(p) == Scale(Scale(Scale(EntAt(x, p).energy, 7, 10),
                                         1000 + ((colonyBonus * 3) \div 10), 1000),
                                   e.genetics.efficiency, 100)
            IN  IF deads = {} THEN {x}
                ELSE {[EmitCO2(Clear(x, p), 2000) EXCEPT
                          !.ents[r].energy = @ + amount(p),
                          !.ents[r].foodEaten = @ + 1,
                          !.terr[p].fertility = Min(2000, @ + 100),
                          !.ev.fed = FedEv(x, p, amount(p))]
                        : p \in deads}
        Movement(x) ==
            LET e == x.ents[r]
                deadNearby == findEntityInRange(x, c, DEAD_MATTER, 4, e.genetics.perception)
                targets == IF deadNearby # {}
                           THEN UNION {moveToward(x, e, t) : t \in deadNearby}
                           ELSE findColonyBiasedMove(x, c, DECOMPOSER)
            IN  UNION {IF roll /\ targets # {}
                       THEN {DoMove(x, r, c, t) : t \in targets} ELSE {x}
                         : roll \in SpeedRoll(20, e)}
        Upkeep(x) == Grow(AddEnergy(x, r, -Max(100, 200 - (colonyBonus \div 20))), r)
        Reproduction(x) ==
            MatedReproduction(x, r, DECOMPOSER, 50 * EU, 2,
                LAMBDA y, p : findColonyBiasedMove(y, p, DECOMPOSER),
                15 * EU, 10 * EU, FALSE)
        Death(x) == IF Dying(x.ents[r]) THEN Vanish(x, r, c) ELSE {x}
        W1 == {Respire(x, 40, 80) : x \in processDisease(w, r)}
        W2 == {Upkeep(x) : x \in Bind(Bind(W1, Decompose), Movement)}
    IN  Bind(Bind(W2, Reproduction), Death)

processDeadMatter(w, r, c) ==
    LET w1 == [EmitCO2(w, 100) EXCEPT
                  !.ents[r].energy = @ - 300,
                  !.ents[r].age = @ + 1,
                  !.terr[c].fertility = Min(2000, @ + 5)]
    IN  IF Dying(w1.ents[r])
        THEN {[EmitCO2(Clear(w1, c), 1000) EXCEPT !.ev.death = <<c>>]}
        ELSE {w1}

-----------------------------------------------------------------------------
(* The 2D and 3D variants: five species, no genetics, no terrain.  The      *)
(* rules of the two files differ in their constants only (Basic).          *)

Basic(v) ==
    IF v = "2d"
    THEN [plantCO2 |-> 300, plantO2 |-> 500, plantChance |-> 6,
          herbO2 |-> 200, herbCO2 |-> 150, herbMove |-> 35, herbCost |-> 700,
          herbChance |-> 4,
          carnO2 |-> 300, carnCO2 |-> 200, carnMove |-> 50, carnCost |-> 1000,
          carnChance |-> 25,
          decO2 |-> 100, decCO2 |-> 150, decRelease |-> 3000, decMove |-> 15,
          decCost |-> 350, decChance |-> 3,
          deadCost |-> 400, deadRelease |-> 1500]
    ELSE [plantCO2 |-> 500, plantO2 |-> 800, plantChance |-> 8,
          herbO2 |-> 300, herbCO2 |-> 200, herbMove |-> 40, herbCost |-> 800,
          herbChance |-> 5,
          carnO2 |-> 400, carnCO2 |-> 300, carnMove |-> 60, carnCost |-> 1200,
          carnChance |-> 30,
          decO2 |-> 100, decCO2 |-> 200, decRelease |-> 5000, decMove |-> 20,
          decCost |-> 400, decChance |-> 4,
          deadCost |-> 500, deadRelease |-> 2000]

\* "if (Math.random() < p) { empty = findEmptyNeighbor(x, y); if (empty) move }"
BasicMove(x, r, c) ==
    LET targets == findEmptyNeighbor(x, c, FALSE)
    IN  {x} \cup {MoveWrite(x, r, c, t) : t \in targets}

\* "if (energy > threshold && Math.random() < p) { empty = findEmptyNeighbor(entity.x, ..);
\*  if (empty && allowed) { grid[empty] = new Entity(type, ..); energy -= cost } }"
BasicReproduction(x, r, type, threshold, cost, allowed(_)) ==
    LET e == x.ents[r]
        empties == findEmptyNeighbor(x, Pos(e), FALSE)
        x0 == Tried(x, r, {})
    IN  {x} \cup
        IF ~(e.energy > threshold) THEN {}
        ELSE IF {n \in empties : allowed(n)} = {} THEN {x0}
        ELSE UNION {{[Place(x0, t, child) EXCEPT
                        !.ents[r].energy = @ - cost,
                        !.ev.repro = ReproEv(type, r, e.energy, 0, e.energy)]
                       : child \in NewEntity(variant, type, t)}
                      : t \in {n \in empties : allowed(n)}}

\* "grid[entity.y][entity.x] = new Entity(DEAD_MATTER, ..); its energy = residue"
BasicDeath(x, r, c, residue) ==
    LET d == DeathCell(x.ents[r], c)
    IN  IF ~Dying(x.ents[r]) THEN {x}
        ELSE {[Place(x, d, [n EXCEPT !.energy = residue]) EXCEPT !.ev.death = <<d>>]
                : n \in NewEntity(variant, DEAD_MATTER, d)}

Age(x, r, cost) == [x EXCEPT !.ents[r].energy = @ - cost, !.ents[r].age = @ + 1]

processPlantBasic(w, r, c) ==
    LET K == Basic(variant)
        lightBonus == IF c[3] < 2 THEN 1000 ELSE 1000 - ((c[3] * 300) \div HeightLayers)
        rate == Scale(w.atm.sunlight * 300, lightBonus, 1000)
        w1 == IF Above(w.atm.co2, 5)
              THEN AddEnergy(Photosynthesize(w, K.plantCO2, K.plantO2), r, rate)
              ELSE AddEnergy(w, r, -1 * EU)
        w2 == Age(w1, r, 300)
        W3 == BasicReproduction(w2, r, PLANT, 80 * EU, 30 * EU, LAMBDA n : n[3] <= 1)
    IN  UNION {BasicDeath(x, r, c, 20 * EU) : x \in W3}

processHerbivoreBasic(w, r, c) ==
    LET K == Basic(variant)
        w1 == IF Above(w.atm.o2, 10) THEN Respire(w, K.herbO2, K.herbCO2)
              ELSE AddEnergy(w, r, -5 * EU)
        plants == findNeighborOfType(w1, c, PLANT)
        W2 == IF plants # {} /\ w1.ents[r].energy < 100 * EU
              THEN {[Clear(w1, p) EXCEPT
                        !.ents[r].energy = @ + Min(EntAt(w1, p).energy, 25 * EU),
                        !.ev.fed = FedEv(w1, p, Min(EntAt(w1, p).energy, 25 * EU))] : p \in plants}
              ELSE {w1}
        W3 == {Age(x, r, K.herbCost) : x \in UNION {BasicMove(y, r, c) : y \in W2}}
        W4 == UNION {BasicReproduction(x, r, HERBIVORE, 90 * EU, 40 * EU, LAMBDA n : TRUE)
                       : x \in W3}
    IN  UNION {BasicDeath(x, r, c, 35 * EU) : x \in W4}

processCarnivoreBasic(w, r, c) ==
    LET K == Basic(variant)
        w1 == IF Above(w.atm.o2, 10) THEN Respire(w, K.carnO2, K.carnCO2)
              ELSE AddEnergy(w, r, -6 * EU)
        preys == findNeighborOfType(w1, c, HERBIVORE)
        W2 == IF preys # {} /\ w1.ents[r].energy < 120 * EU
              THEN UNION {{[Place(w1, p, [d EXCEPT !.energy = 15 * EU]) EXCEPT
                              !.ents[r].energy =
                                  @ + Min(Scale(EntAt(w1, p).energy, 8, 10), 50 * EU),
                              !.ev.fed = FedEv(w1, p, Min(Scale(EntAt(w1, p).energy, 8, 10),
                                                          50 * EU))]
                             : d \in NewEntity(variant, DEAD_MATTER, p)}
                            : p \in preys}
              ELSE {w1}
        W3 == {Age(x, r, K.carnCost) : x \in UNION {BasicMove(y, r, c) : y \in W2}}
        W4 == UNION {BasicReproduction(x, r, CARNIVORE, 110 * EU, 50 * EU, LAMBDA n : TRUE)
                       : x \in W3}
    IN  UNION {BasicDeath(x, r, c, 40 * EU) : x \in W4}

processDecomposerBasic(w, r, c) ==
    LET K == Basic(variant)
        w1 == Respire(w, K.decO2, K.decCO2)
        deads == findNeighborOfType(w1, c, DEAD_MATTER)
        W2 == IF deads # {}
              THEN {[EmitCO2(Clear(w1, p), K.decRelease) EXCEPT
                        !.ents[r].energy = @ + Scale(EntAt(w1, p).energy, 6, 10),
                        !.ev.fed = FedEv(w1, p, Scale(EntAt(w1, p).energy, 6, 10))] : p \in deads}
              ELSE {w1}
        W3 == {Age(x, r, K.decCost) : x \in UNION {BasicMove(y, r, c) : y \in W2}}
        W4 == UNION {BasicReproduction(x, r, DECOMPOSER, 60 * EU, 25 * EU, LAMBDA n : TRUE)
                       : x \in W3}
    IN  UNION {IF Dying(x.ents[r]) THEN Vanish(x, r, c) ELSE {x} : x \in W4}

processDeadMatterBasic(w, r, c) ==
    LET K == Basic(variant)
        w1 == Age(w, r, K.deadCost)
    IN  IF Dying(w1.ents[r])
        THEN {[EmitCO2(Clear(w1, c), K.deadRelease) EXCEPT !.ev.death = <<c>>]}
        ELSE {w1}

-----------------------------------------------------------------------------
(* The heap between operations.  Objects no cell and no parasite refers to  *)
(* are garbage; references are not observable, so after each operation the *)
(* live objects are renumbered by the cell that holds them.                 *)

CellIndex(c) == 1 + c[1] + GridSize * c[2] + GridSize * GridSize * c[3]

\* stands for a reference to an object that is in no cell
Gone == MaxRef + 1

Canon(g, h) ==
    LET inGrid == {g[c] : c \in AllCells} \ {0}
        idx(r) == CHOOSE i \in 1 .. NCells :
                     /\ \E c \in AllCells : g[c] = r /\ CellIndex(c) = i
                     /\ \A c \in AllCells : g[c] = r => i <= CellIndex(c)
        hostsOff == {h[p].host : p \in inGrid} \ ({0} \cup inGrid)
        via(r) == CHOOSE i \in 1 .. NCells :
                     /\ \E p \in inGrid : h[p].host = r /\ idx(p) = i
                     /\ \A p \in inGrid : h[p].host = r => i <= idx(p)
        new(r) == IF r = 0 THEN 0
                  ELSE IF r \in inGrid THEN idx(r)
                  ELSE IF r \in hostsOff THEN NCells + via(r)
                  ELSE Gone
        live == inGrid \cup hostsOff
        old(q) == CHOOSE r \in live : new(r) = q
        move(e) == [e EXCEPT !.host = new(@),
                             !.parasites = [i \in DOMAIN @ |-> new(@[i])]]
    IN  [grid |-> [c \in AllCells |-> new(g[c])],
         ents |-> [q \in Refs |-> IF \E r \in live : new(r) = q
                                  THEN move(h[old(q)]) ELSE NoEnt]]

EmptyGrid == [c \in AllCells |-> 0]
EmptyHeap == [q \in Refs |-> NoEnt]

-----------------------------------------------------------------------------
(* Statistics and history *)

CountOf(g, h, type) == Cardinality({c \in AllCells : g[c] # 0 /\ h[g[c]].type = type})

\* updateStats()
updateStats(g, h) ==
    [plants |-> CountOf(g, h, PLANT), herbivores |-> CountOf(g, h, HERBIVORE),
     carnivores |-> CountOf(g, h, CARNIVORE), decomposers |-> CountOf(g, h, DECOMPOSER),
     omnivores |-> CountOf(g, h, OMNIVORE), apexPredators |-> CountOf(g, h, APEX_PREDATOR),
     parasites |-> CountOf(g, h, PARASITE), deadMatter |-> CountOf(g, h, DEAD_MATTER)]

\* new PopulationHistory(500): every series is empty.  The series are kept
\* as one sequence of entries (they are always pushed and shifted together);
\* biodiversity and avgFitness are not kept.
HistoryMaxLength == 500
EmptyHistory == <<>>

\* the values record() pushes, one to each series
Sample(pops, atm, gen) ==
    [timestamp |-> gen, populations |-> pops,
     totalPopulation |-> pops.plants + pops.herbivores + pops.carnivores
                         + pops.decomposers + pops.omnivores
                         + pops.apexPredators + pops.parasites,
     o2 |-> atm.o2, co2 |-> atm.co2]

\* a record() that never trims
recordUntrimmed(hist, pops, atm, gen) == Append(hist, Sample(pops, atm, gen))

\* PopulationHistory.record(populations, atmosphere, .., generation)
record(hist, pops, atm, gen) ==
    LET pushed == Append(hist, Sample(pops, atm, gen))
    IN  IF Len(pushed) > HistoryMaxLength THEN Tail(pushed) ELSE pushed

-----------------------------------------------------------------------------
(* Complete Edition: time, weather, disasters *)

SeasonLength == 500

NextSeason(season) ==
    CASE season = "spring" -> "summer" [] season = "summer" -> "fall"
      [] season = "fall" -> "winter" [] OTHER -> "spring"

\* the season n steps after initGrid()
SeasonAt(n) ==
    CASE (n \div SeasonLength) % 4 = 0 -> "spring" [] (n \div SeasonLength) % 4 = 1 -> "summer"
      [] (n \div SeasonLength) % 4 = 2 -> "fall" [] OTHER -> "winter"

\* the draws of 50 + Math.floor(Math.random() * 100)
WeatherTimerDraws == {50, 149}

\* changeWeather(): the weathers the cumulative draw can select in a season
\* (in spring the chances of clear, rain and drought already sum to 1)
changeWeather(k) ==
    {[k EXCEPT !.weather = wx, !.weatherTimer = t]
        : wx \in IF k.currentSeason = "spring" THEN {"clear", "rain", "drought"}
                 ELSE Weathers,
          t \in WeatherTimerDraws}

\* an updateTime() that turns the season one step late
updateClockLate(k) ==
    LET k1 == IF k.seasonTimer + 1 > SeasonLength
              THEN [k EXCEPT !.seasonTimer = 0, !.currentSeason = NextSeason(@)]
              ELSE [k EXCEPT !.seasonTimer = @ + 1]
        k2 == [k1 EXCEPT !.weatherTimer = @ - 1]
    IN  IF k2.weatherTimer <= 0 THEN changeWeather(k2) ELSE {k2}

\* updateTime() up to applyWeatherEffects(): the clock
updateClock(k) ==
    LET k1 == IF k.seasonTimer + 1 >= SeasonLength
              THEN [k EXCEPT !.seasonTimer = 0, !.currentSeason = NextSeason(@)]
              ELSE [k EXCEPT !.seasonTimer = @ + 1]
        k2 == [k1 EXCEPT !.weatherTimer = @ - 1]
    IN  IF k2.weatherTimer <= 0 THEN changeWeather(k2) ELSE {k2}

\* applyWeatherEffects() on the world
applyWeatherEffects(w, wx) ==
    CASE wx = "rain" ->
           {[w EXCEPT !.terr = [c \in AllCells |->
                                  [w.terr[c] EXCEPT !.moisture = Min(1000, @ + 1)]]]}
      [] wx = "drought" ->
           {[w EXCEPT !.terr = [c \in AllCells |->
                                  [w.terr[c] EXCEPT !.moisture = Max(0, @ - 2)]]]}
      [] wx = "storm" ->
           \* a lightning strike (1 in 100) on a random cell
           {w} \cup UNION {IF Occupied(w, c) /\ w.terr[c].type # T_WATER
                           THEN {Place(w, c, d) : d \in NewEntity("complete", DEAD_MATTER, c)}
                           ELSE {w}
                             : c \in CellsOf("complete")}
      [] OTHER -> {w}

\* the cells a disaster of the given centre and radius covers
Covered(centre, radius) ==
    {c \in CellsOf("complete") :
        (c[1] - centre[1]) * (c[1] - centre[1]) + (c[2] - centre[2]) * (c[2] - centre[2])
            <= radius * radius}

\* the draws of 5 + Math.floor(Math.random() * 10) and of
\* 30 + Math.floor(Math.random() * 30)
RadiusDraws == {5, 14}
DurationDraws == {30, 59}

\* One cell of applyFire / applyFlood: the entity may be replaced by
\* DeadMatter of the given energy; "Math.random() > survivalChance"
Scorch(W, c, residue, spares(_), terr(_)) ==
    UNION {LET e == EntAt(w, c)
               w1 == [w EXCEPT !.terr[c] = terr(@)]
           IN  IF Occupied(w, c) /\ ~spares(e)
               THEN UNION {IF dies
                           THEN {Place(w1, c, [d EXCEPT !.energy = residue])
                                   : d \in NewEntity("complete", DEAD_MATTER, c)}
                           ELSE {w1}
                             : dies \in ChanceAbove(IF e.type = PLANT /\ residue = 10 * EU
                                                    THEN 10000
                                                    ELSE e.genetics.speed
                                                         * (IF residue = 10 * EU THEN 300 ELSE 400),
                                                    100000)}
               ELSE {w1}
             : w \in W}

RECURSIVE OverCells(_, _, _, _)
\* a disaster's loop over the covered cells, in scan order
OverCells(W, cells, kind, i) ==
    IF i > NCells THEN W
    ELSE LET here == {c \in cells : CellIndex(c) = i}
             step(c) ==
                CASE kind = "fire" ->
                       IF \A w \in W : w.terr[c].type = T_WATER THEN W
                       ELSE Scorch(W, c, 10 * EU, LAMBDA e : FALSE,
                                   LAMBDA t : [t EXCEPT !.fertility = @ \div 2])
                  [] kind = "flood" ->
                       IF \A w \in W : w.terr[c].type = T_MOUNTAIN THEN W
                       ELSE Scorch(W, c, 15 * EU, LAMBDA e : e.type = PLANT,
                                   LAMBDA t : [t EXCEPT !.moisture = Min(1000, @ + 300)])
                  [] OTHER ->
                       \* applyDiseaseOutbreak: Math.random() > immunity && !isImmune
                       UNION {LET e == EntAt(w, c)
                              IN  IF Occupied(w, c) /\ e.type \notin {DEAD_MATTER, PLANT}
                                     /\ ~e.isImmune
                                  THEN UNION {IF ill
                                              THEN {[w EXCEPT
                                                       !.ents[At(w, c)].isInfected = TRUE,
                                                       !.ents[At(w, c)].diseaseTimer = t]
                                                      : t \in DurationDraws}
                                              ELSE {w}
                                                : ill \in ChanceAbove(e.genetics.immunity, 100)}
                                  ELSE {w}
                                : w \in W}
         IN  OverCells(IF here = {} THEN W ELSE UNION {step(c) : c \in here},
                       cells, kind, i + 1)

\* DisasterManager.trigger(type): the worlds and the manager afterwards
trigger(w, dm, type) ==
    {[w |-> x,
      dm |-> [active |-> Append(dm.active, [type |-> type, duration |-> d]),
              cooldown |-> 200]]
       : x \in UNION {OverCells({w}, Covered(centre, radius), type, 1)
                        : centre \in CellsOf("complete"), radius \in RadiusDraws},
         d \in DurationDraws}

\* the active disasters after "d.duration--; return d.duration > 0"
Elapse(active) ==
    SelectSeq([i \in DOMAIN active |-> [active[i] EXCEPT !.duration = @ - 1]],
              LAMBDA d : d.duration > 0)

\* DisasterManager.update()
update(w, dm, gen) ==
    IF dm.cooldown > 0
    THEN {[w |-> w, dm |-> [dm EXCEPT !.cooldown = @ - 1]]}
    ELSE {[w |-> w, dm |-> [dm EXCEPT !.active = Elapse(@)]]}
         \cup IF gen > 100
              THEN UNION {{[w |-> t.w, dm |-> [t.dm EXCEPT !.active = Elapse(@)]]
                             : t \in trigger(w, dm, type)}
                            : type \in DisasterTypes}
              ELSE {}

-----------------------------------------------------------------------------
(* step() *)

\* "Collect all entities": one entry {entity, x, y[, z]} per occupied cell
Snapshot(g) == {[ref |-> g[c], cell |-> c] : c \in {d \in CellsOf(variant) : g[d] # 0}}

RECURSIVE Shuffles(_)
\* the orders the Fisher-Yates shuffle can produce: all of them
Shuffles(S) ==
    IF S = {} THEN {<<>>}
    ELSE UNION {{<<e>> \o t : t \in Shuffles(S \ {e})} : e \in S}

\* a loop without the re-validation
HoldsAlways(w, entry) == TRUE

\* "if (this.grid[y][x] !== entity) continue;"
Holds(w, entry) == w.grid[entry.cell] = entry.ref

\* the switch on entity.type
Dispatch(w, r, c) ==
    LET type == w.ents[r].type
    IN  IF variant = "complete"
        THEN CASE type = PLANT -> processPlant(w, r, c)
               [] type = HERBIVORE -> processHerbivore(w, r, c)
               [] type = CARNIVORE -> processCarnivore(w, r, c)
               [] type = DECOMPOSER -> processDecomposer(w, r, c)
               [] type = DEAD_MATTER -> processDeadMatter(w, r, c)
               [] type = OMNIVORE -> processOmnivore(w, r, c)
               [] type = APEX_PREDATOR -> processApexPredator(w, r, c)
               [] type = PARASITE -> processParasite(w, r, c)
               [] OTHER -> {w}
        ELSE CASE type = PLANT -> processPlantBasic(w, r, c)
               [] type = HERBIVORE -> processHerbivoreBasic(w, r, c)
               [] type = CARNIVORE -> processCarnivoreBasic(w, r, c)
               [] type = DECOMPOSER -> processDecomposerBasic(w, r, c)
               [] type = DEAD_MATTER -> processDeadMatterBasic(w, r, c)
               [] OTHER -> {w}

\* a balance that takes the whole excess from the oxygen
RebalanceOxygenOnly(atm) ==
    LET total == DAdd(atm.o2, atm.co2)
    IN  IF Above(total, 100)
        THEN [atm EXCEPT !.o2 = DMinus(@, DMinus(total, DInt(100)))]
        ELSE atm

\* "Balance atmosphere": total = o2 + co2; if (total > 100) both lose
\* excess * 0.5 (the difference total - 100 and its half are exact; neither
\* gas is above 100, so each is at least half the excess)
Rebalance(atm) ==
    LET total == DAdd(atm.o2, atm.co2)
        excess == DMinus(total, DInt(100))
    IN  IF Above(total, 100)
        THEN [atm EXCEPT !.o2 = DMinus(@, DHalf(excess)), !.co2 = DMinus(@, DHalf(excess))]
        ELSE atm

\* what the balance takes from each gas: excess * 0.5, nothing when the
\* total is not above 100
HalfExcess(atm) ==
    LET total == DAdd(atm.o2, atm.co2)
    IN  IF Above(total, 100) THEN DHalf(DMinus(total, DInt(100))) ELSE DInt(0)

\* the part of step() before the loop: updateTime(), disasters.update()
\* (Complete Edition), then the snapshot and its shuffle
StepStarts ==
    IF variant = "complete"
    THEN UNION {UNION {{[clock |-> k, w |-> t.w, dm |-> t.dm]
                          : t \in update(x, disasters, generation)}
                         : x \in applyWeatherEffects(World, k.weather)}
                  : k \in updateClock(clock)}
    ELSE {[clock |-> clock, w |-> World, dm |-> disasters]}

\* for obs: the age of every entity of the grid g, by reference; -1 for a
\* reference that is in no cell
AgesIn(g, h) == [r \in Refs |-> IF \E c \in AllCells : g[c] = r THEN h[r].age ELSE -1]

\* for obs: of every entity that was in the grid when the step began and is
\* in the grid g now, its age then, its age now and its maxAge
Aged(start, g, h) ==
    {[type |-> h[r].type, from |-> start[r], to |-> h[r].age, maxAge |-> h[r].maxAge]
        : r \in {q \in Refs : start[q] >= 0 /\ \E c \in AllCells : g[c] = q}}

StepBegin ==
    /\ pc = "idle"
    /\ steps < MaxSteps
    /\ \E b \in StepStarts :
         \E order \in Shuffles(Snapshot(b.w.grid)) :
            /\ clock' = b.clock
            /\ grid' = b.w.grid
            /\ ents' = b.w.ents
            /\ terrain' = b.w.terr
            /\ atmosphere' = b.w.atm
            /\ disasters' = b.dm
            /\ worklist' = order
            /\ obs' = [op |-> "begin", starved |-> {}, start |-> AgesIn(grid, ents),
                       snapshot |-> {e.ref : e \in Snapshot(b.w.grid)}]
    /\ pc' = "process"
    /\ steps' = steps + 1
    /\ UNCHANGED <<variant, locals, generation, densities, populations, history, saved, ops>>

\* for obs: whether the herbivore in cell c has food next to it
FoodNear(w, c) == \E n \in getNeighbors(c) : Occupied(w, n) /\ EntAt(w, n).type = PLANT

\* one iteration of "for (const { entity, x, y } of entities)"
ProcessEntry ==
    /\ pc = "process"
    /\ worklist # <<>>
    /\ LET entry == Head(worklist)
           r == entry.ref
           go == Holds(World, entry)
       IN  \E x \in (IF go THEN Dispatch(World, r, entry.cell) ELSE {World}) :
              /\ grid' = x.grid
              /\ ents' = x.ents
              /\ terrain' = x.terr
              /\ atmosphere' = x.atm
              /\ obs' = [op |-> "entry",
                         cell |-> entry.cell,
                         type |-> ents[r].type,
                         held |-> (grid[entry.cell] = r),
                         dispatched |-> go,
                         before |-> ents[r],
                         after |-> x.ents[r],
                         changed |-> (x.grid # grid \/ x.ents # ents
                                      \/ x.atm # atmosphere \/ x.terr # terrain),
                         foodNear |-> FoodNear(World, entry.cell),
                         repro |-> x.ev.repro,
                         death |-> x.ev.death,
                         fed |-> x.ev.fed,
                         tried |-> x.ev.tried,
                         plantsNear |-> {n \in Around(entry.cell, Settings.plant.spreadRadius) :
                                           grid[n] # 0 /\ ents[grid[n]].type = PLANT},
                         starved |-> obs.starved \cup
                                     IF go /\ ents[r].type = HERBIVORE
                                        /\ ~FoodNear(World, entry.cell)
                                        /\ x.ents[r].energy <= 0
                                     THEN {entry.cell} ELSE {},
                         start |-> obs.start,
                         snapshot |-> obs.snapshot,
                         ref |-> r,
                         air |-> atmosphere]
    /\ worklist' = Tail(worklist)
    /\ UNCHANGED <<variant, locals, generation, clock, densities, populations, history,
                   disasters, saved, pc, ops, steps>>

\* the part of step() after the loop
StepEnd ==
    /\ pc = "process"
    /\ worklist = <<>>
    /\ LET heap == Canon(grid, ents)
           atm == Rebalance(atmosphere)
           pops == updateStats(heap.grid, heap.ents)
       IN  /\ atmosphere' = atm
           /\ generation' = generation + 1
           /\ grid' = heap.grid
           /\ ents' = heap.ents
           /\ populations' = pops
           /\ history' = IF variant = "complete" /\ (generation + 1) % 5 = 0
                         THEN record(history, pops, atm, generation + 1)
                         ELSE history
           /\ obs' = [op |-> "end", pre |-> atmosphere, hist |-> history,
                      starved |-> obs.starved,
                      aged |-> Aged(obs.start, grid, ents),
                      lost |-> {r \in Refs : obs.start[r] >= 0}
                                  \ {grid[c] : c \in AllCells}]
    /\ pc' = "idle"
    /\ UNCHANGED <<variant, locals, terrain, clock, densities, disasters, saved, worklist,
                   ops, steps>>

-----------------------------------------------------------------------------
(* Operations between steps *)

\* An operation runs between steps.  The runs of the model are bounded:
\* at most MaxOps operations, all of them before the steps.
\* outside populate() its locals do not exist
NoLocals == [i |-> 0, numSeeds |-> 0, attempts |-> 0]

CanOperate == pc = "idle" /\ ops < MaxOps /\ steps = 0

\* the live state an operation may change, for obs
Live == [generation |-> generation, atmosphere |-> atmosphere, clock |-> clock,
         densities |-> densities, grid |-> grid, ents |-> ents,
         terrain |-> terrain, history |-> history, populations |-> populations]

CellAt(i) == CHOOSE c \in AllCells : CellIndex(c) = i

\* the cells of variant v in the order of the nested loops ([z,] y, x)
ScanOrder(v) == SelectSeq([i \in 1 .. NCells |-> CellAt(i)], LAMBDA c : c \in CellsOf(v))

\* an initGrid() that leaves the generation counter alone
initGridKeepsGeneration(st) ==
    [st EXCEPT !.grid = EmptyGrid, !.ents = EmptyHeap,
               !.populations = updateStats(EmptyGrid, EmptyHeap)]

\* initGrid(): every cell null, generation = 0 (Complete Edition also
\* seasonTimer = 0, currentSeason = SPRING), updateStats()
initGrid(st) ==
    [st EXCEPT !.grid = EmptyGrid, !.ents = EmptyHeap,
               !.generation = 0,
               !.clock = IF variant = "complete"
                         THEN [@ EXCEPT !.seasonTimer = 0, !.currentSeason = "spring"]
                         ELSE @,
               !.populations = updateStats(EmptyGrid, EmptyHeap)]

\* 2D populate(): densityMod = max(0, 1 - dist / (gridSize * 0.45) * 0.7) is
\* positive where 49 * dist^2 < 81 * gridSize^2 / 4
PlantSpot(v, c) ==
    IF v = "2d"
    THEN 49 * ((2 * c[1] - GridSize) * (2 * c[1] - GridSize)
               + (2 * c[2] - GridSize) * (2 * c[2] - GridSize)) < 81 * GridSize * GridSize
    ELSE c[3] < Min(2, HeightLayers)

\* the types populate() can put into cell c
PopulateTypes(v, terr, c) ==
    IF v = "complete"
    THEN IF terr[c].type \in {T_WATER, T_MOUNTAIN} THEN {}
         ELSE {PLANT, HERBIVORE, CARNIVORE, DECOMPOSER, OMNIVORE, APEX_PREDATOR, PARASITE}
    ELSE (IF PlantSpot(v, c) THEN {PLANT} ELSE {}) \cup {HERBIVORE, CARNIVORE, DECOMPOSER}

RECURSIVE Fill(_, _, _)
\* The grids populate() can produce over the cells from the i-th on.  Every
\* draw of the colony and scatter loops (of the plant loop and the count
\* loops in the 2D and 3D variants, whose counts floor(totalCells * density)
\* are positive on the program's grids) may fill or leave a cell; the model
\* keeps the outcomes with at most MaxPop entities.
Fill(W, order, i) ==
    IF i > Len(order) THEN W
    ELSE LET c == order[i]
             filled == UNION {UNION {{Place(w, c, e) : e \in NewEntity(variant, type, c)}
                                       : type \in PopulateTypes(variant, w.terr, c)}
                                : w \in {x \in W :
                                            Cardinality({d \in AllCells : x.grid[d] # 0})
                                                < MaxPop}}
         IN  Fill(W \cup filled, order, i + 1)

\* the placements of populate() and its updateStats()
Placements(st0) ==
    LET w0 == [grid |-> st0.grid, ents |-> st0.ents, atm |-> st0.atmosphere,
               terr |-> st0.terrain, ev |-> NoEv]
    IN  {[st0 EXCEPT !.grid = w.grid, !.ents = w.ents,
                     !.populations = updateStats(w.grid, w.ents)]
           : w \in Fill({w0}, ScanOrder(variant), 1)}

\* a populate() that also empties the history
populateClearing(st) == Placements(initGrid([st EXCEPT !.history = EmptyHistory]))

\* populate(): initGrid(), the placements, updateStats()
populate(st) == Placements(initGrid(st))

Populate ==
    /\ CanOperate
    /\ \E st \in populate(Live) :
          /\ grid' = st.grid
          /\ ents' = st.ents
          /\ generation' = st.generation
          /\ clock' = st.clock
          /\ populations' = st.populations
          /\ history' = st.history
    /\ ops' = ops + 1
    /\ obs' = [op |-> "populate", prev |-> Live]
    /\ UNCHANGED <<variant, locals, terrain, atmosphere, densities, disasters,
                   saved, pc, worklist, steps>>

\* applyPreset(preset): o2 and sunlight of the bundle; co2 = 100 - o2
Presets(v) ==
    IF v = "complete"
    THEN [balanced |-> [o2 |-> 50, sunlight |-> 5], jungle |-> [o2 |-> 65, sunlight |-> 8],
          predator |-> [o2 |-> 45, sunlight |-> 5], barren |-> [o2 |-> 30, sunlight |-> 3],
          outbreak |-> [o2 |-> 50, sunlight |-> 5],
          extinction |-> [o2 |-> 25, sunlight |-> 2]]
    ELSE [balanced |-> [o2 |-> 50, sunlight |-> 5], jungle |-> [o2 |-> 60, sunlight |-> 8],
          predator |-> [o2 |-> 45, sunlight |-> 4], barren |-> [o2 |-> 30, sunlight |-> 3]]

PresetNames(v) == DOMAIN Presets(v)

\* the preset buttons the model presses
PresetInputs == {"jungle", "barren"}

\* an applyPreset() that starts the count of generations afresh
applyPresetFromZero(st, name) ==
    LET p == Presets(variant)[name]
    IN  [st EXCEPT !.densities = name, !.generation = 0,
                   !.atmosphere = [o2 |-> DInt(p.o2), co2 |-> DInt(100 - p.o2),
                                   sunlight |-> p.sunlight]]

\* applyPreset(preset) for a known preset: the densities, o2, co2 = 100 - o2
\* and the sunlight
applyPreset(st, name) ==
    LET p == Presets(variant)[name]
    IN  [st EXCEPT !.densities = name,
                   !.atmosphere = [o2 |-> DInt(p.o2), co2 |-> DInt(100 - p.o2),
                                   sunlight |-> p.sunlight]]

\* initTerrain(): the maps generateTerrain() draws, cut down to two
TerrainMaps ==
    {[c \in AllCells |-> TerrainCell(T_NORMAL)],
     [c \in AllCells |-> TerrainCell(IF c = <<0, 0, 0>> THEN T_WATER
                                     ELSE IF c = <<1, 1, 0>> THEN T_MOUNTAIN
                                     ELSE T_NORMAL)]}

\* reset(): [initTerrain();] populate(); [history = new PopulationHistory(500)]
reset(st) ==
    IF variant = "complete"
    THEN UNION {{[q EXCEPT !.history = EmptyHistory]
                   : q \in populate([st EXCEPT !.terrain = t])}
                  : t \in TerrainMaps}
    ELSE populate(st)

Reset ==
    /\ CanOperate
    /\ \E st \in reset(Live) :
          /\ grid' = st.grid
          /\ ents' = st.ents
          /\ generation' = st.generation
          /\ clock' = st.clock
          /\ populations' = st.populations
          /\ terrain' = st.terrain
          /\ history' = st.history
    /\ ops' = ops + 1
    /\ obs' = [op |-> "reset", prev |-> Live]
    /\ UNCHANGED <<variant, locals, atmosphere, densities, disasters, saved, pc, worklist, steps>>

\* a preset button: applyPreset(preset) and, as it is a known one, reset()
PresetClick ==
    /\ CanOperate
    /\ \E name \in PresetInputs \cap PresetNames(variant) :
         \E st \in reset(applyPreset(Live, name)) :
            /\ grid' = st.grid
            /\ ents' = st.ents
            /\ generation' = st.generation
            /\ clock' = st.clock
            /\ populations' = st.populations
            /\ terrain' = st.terrain
            /\ history' = st.history
            /\ atmosphere' = st.atmosphere
            /\ densities' = st.densities
    /\ ops' = ops + 1
    /\ obs' = [op |-> "preset", prev |-> Live]
    /\ UNCHANGED <<variant, locals, disasters, saved, pc, worklist, steps>>

\* world.applyPreset(preset) alone
ApplyPreset ==
    /\ CanOperate
    /\ \E name \in PresetInputs \cap PresetNames(variant) :
         LET st == applyPreset(Live, name)
         IN  /\ grid' = st.grid
             /\ ents' = st.ents
             /\ generation' = st.generation
             /\ clock' = st.clock
             /\ populations' = st.populations
             /\ terrain' = st.terrain
             /\ history' = st.history
             /\ atmosphere' = st.atmosphere
             /\ densities' = st.densities
    /\ ops' = ops + 1
    /\ obs' = [op |-> "applyPreset", prev |-> Live]
    /\ UNCHANGED <<variant, locals, disasters, saved, pc, worklist, steps>>

\* the initialO2 slider: o2 = val; co2 = 100 - val
InitialO2Values == {35, 65}

SetInitialO2 ==
    /\ CanOperate
    /\ variant = "complete"
    /\ \E val \in InitialO2Values :
          atmosphere' = [atmosphere EXCEPT !.o2 = DInt(val), !.co2 = DInt(100 - val)]
    /\ ops' = ops + 1
    /\ obs' = [op |-> "initialO2", prev |-> Live]
    /\ UNCHANGED <<variant, locals, grid, ents, terrain, generation, clock, densities,
                   populations, history, disasters, saved, pc, worklist, steps>>

\* the entity types the spawn tool can be set to
SpawnTypes == {PLANT, HERBIVORE, CARNIVORE, DECOMPOSER, DEAD_MATTER, OMNIVORE,
               APEX_PREDATOR, PARASITE}

\* a spawnAt() that does not look at the terrain
spawnAtOnAnyTerrain(w, c, type) ==
    IF Occupied(w, c) THEN {w}
    ELSE {Place(w, c, e) : e \in NewEntity("complete", type, c)}

\* spawnAt(x, y, type)
spawnAt(w, c, type) ==
    IF (w.terr[c].type = T_WATER /\ type # PLANT)
       \/ w.terr[c].type = T_MOUNTAIN
       \/ Occupied(w, c)
    THEN {w}
    ELSE {Place(w, c, e) : e \in NewEntity("complete", type, c)}

SpawnAt ==
    /\ CanOperate
    /\ variant = "complete"
    /\ \E c \in CellsOf(variant), type \in SpawnTypes :
         \E w \in spawnAt(World, c, type) :
            LET heap == Canon(w.grid, w.ents)
            IN  /\ grid' = heap.grid
                /\ ents' = heap.ents
                /\ obs' = [op |-> "spawn", prev |-> Live, cell |-> c, type |-> type]
    /\ ops' = ops + 1
    /\ UNCHANGED <<variant, locals, terrain, atmosphere, generation, clock, densities,
                   populations, history, disasters, saved, pc, worklist, steps>>

\* killAt(x, y)
killAt(w, c) ==
    IF Occupied(w, c) /\ EntAt(w, c).type # DEAD_MATTER
    THEN {Place(w, c, [d EXCEPT !.energy = EntAt(w, c).energy \div 2])
            : d \in NewEntity("complete", DEAD_MATTER, c)}
    ELSE {Clear(w, c)}

KillAt ==
    /\ CanOperate
    /\ variant = "complete"
    /\ \E c \in CellsOf(variant) :
         \E w \in killAt(World, c) :
            LET heap == Canon(w.grid, w.ents)
            IN  /\ grid' = heap.grid
                /\ ents' = heap.ents
                /\ obs' = [op |-> "kill", prev |-> Live, cell |-> c]
    /\ ops' = ops + 1
    /\ UNCHANGED <<variant, locals, terrain, atmosphere, generation, clock, densities,
                   populations, history, disasters, saved, pc, worklist, steps>>

\* the brush sizes the slider is set to in the model
BrushSizes == {1, 2}

\* the cells paintTerrain(cx, cy, ..) visits: dx, dy in -brushSize+1 ..
\* brushSize-1, inside the grid
Brush(c, brushSize) ==
    {d \in CellsOf("complete") :
        Abs(d[1] - c[1]) < brushSize /\ Abs(d[2] - c[2]) < brushSize}

\* a paintTerrain() that leaves the entities where they are
paintTerrainKeepingEntities(w, c, type, brushSize) ==
    [w EXCEPT !.terr = [d \in AllCells |->
                           IF d \in Brush(c, brushSize) THEN TerrainCell(type)
                           ELSE w.terr[d]]]

\* paintTerrain(cx, cy, type): every cell under the brush gets a new
\* TerrainCell(type); painting water or mountain empties the cell
paintTerrain(w, c, type, brushSize) ==
    [w EXCEPT !.terr = [d \in AllCells |->
                           IF d \in Brush(c, brushSize) THEN TerrainCell(type)
                           ELSE w.terr[d]],
              !.grid = [d \in AllCells |->
                           IF d \in Brush(c, brushSize) /\ type \in {T_WATER, T_MOUNTAIN}
                           THEN 0 ELSE w.grid[d]]]

PaintTerrain ==
    /\ CanOperate
    /\ variant = "complete"
    /\ \E c \in CellsOf(variant), type \in TerrainTypes, brushSize \in BrushSizes :
         LET w == paintTerrain(World, c, type, brushSize)
             heap == Canon(w.grid, w.ents)
         IN  /\ grid' = heap.grid
             /\ ents' = heap.ents
             /\ terrain' = w.terr
             /\ obs' = [op |-> "paint", prev |-> Live, cell |-> c, type |-> type,
                        brushSize |-> brushSize]
    /\ ops' = ops + 1
    /\ UNCHANGED <<variant, locals, atmosphere, generation, clock, densities,
                   populations, history, disasters, saved, pc, worklist, steps>>

-----------------------------------------------------------------------------
(* populate() of the Complete Edition, loop by loop.  The colony-seed loop  *)
(* draws a cell per iteration; the colony and scatter loops are for-loops   *)
(* over the grid and are taken in one step.                                  *)

\* numSeeds = 6 + Math.floor(Math.random() * 4)
NumSeeds == 6 .. 9

\* the attempts after which a seed is meant to be put down wherever it fell
SeedAttempts == 5 * 10

\* populate(): initGrid(); Entity.nextId = 1; numSeeds drawn; the first
\* seed's attempts = 0
PopulateBegin ==
    /\ pc = "idle" /\ steps = 0 /\ ops <= MaxOps
    /\ variant = "complete"
    /\ LET st == initGrid(Live)
       IN  /\ grid' = st.grid
           /\ ents' = st.ents
           /\ generation' = st.generation
           /\ clock' = st.clock
           /\ populations' = st.populations
    /\ \E n \in NumSeeds : locals' = [i |-> 0, numSeeds |-> n, attempts |-> 0]
    /\ pc' = "seed"
    /\ obs' = [op |-> "populate-begin", prev |-> Live]
    /\ UNCHANGED <<variant, terrain, atmosphere, densities, history, disasters,
                   saved, worklist, ops, steps>>

\* do { x, y drawn; attempts++ } while (WATER || MOUNTAIN && attempts < 50)
\* with the draw falling on cell c: the loop goes on, or the seed is pushed
\* and the next seed starts with attempts = 0.  Beyond SeedAttempts the
\* counter no longer changes the condition and the model stops counting.
SeedDraw(c) ==
    /\ pc = "seed"
    /\ LET attempts == Min(locals.attempts + 1, SeedAttempts)
           again == \/ terrain[c].type = T_WATER
                    \/ terrain[c].type = T_MOUNTAIN /\ attempts < SeedAttempts
       IN  IF again
           THEN /\ locals' = [locals EXCEPT !.attempts = attempts]
                /\ pc' = pc
           ELSE /\ locals' = [locals EXCEPT !.i = @ + 1, !.attempts = 0]
                /\ pc' = IF locals.i + 1 < locals.numSeeds THEN "seed" ELSE "grow"
    /\ obs' = [op |-> "seed", cell |-> c, before |-> locals]
    /\ UNCHANGED <<variant, grid, ents, terrain, atmosphere, generation, clock,
                   densities, populations, history, disasters, saved, worklist, ops,
                   steps>>

PopulateSeed == \E c \in CellsOf("complete") : SeedDraw(c)

\* the colonies, the scatter loop and updateStats()
PopulateEnd ==
    /\ pc = "grow"
    /\ \E st \in Placements(Live) :
          /\ grid' = st.grid
          /\ ents' = st.ents
          /\ populations' = st.populations
    /\ locals' = NoLocals
    /\ pc' = "idle"
    /\ ops' = ops + 1
    /\ obs' = [op |-> "populate", prev |-> Live]
    /\ UNCHANGED <<variant, terrain, atmosphere, generation, clock, densities,
                   history, disasters, saved, worklist, steps>>

\* triggerDisaster(type)
TriggerDisaster ==
    /\ CanOperate
    /\ variant = "complete"
    /\ \E type \in DisasterTypes :
         \E t \in trigger(World, disasters, type) :
            LET heap == Canon(t.w.grid, t.w.ents)
            IN  /\ grid' = heap.grid
                /\ ents' = heap.ents
                /\ terrain' = t.w.terr
                /\ disasters' = t.dm
                /\ obs' = [op |-> "disaster", prev |-> Live, type |-> type]
    /\ ops' = ops + 1
    /\ UNCHANGED <<variant, locals, atmosphere, generation, clock, densities, populations,
                   history, saved, pc, worklist, steps>>

-----------------------------------------------------------------------------
(* Complete Edition: saveState() and loadState() *)

NoSave == [version |-> 0]

\* one element of state.entities
SavedEntity(e) ==
    [type |-> e.type, x |-> e.x, y |-> e.y, energy |-> e.energy, age |-> e.age,
     maxAge |-> e.maxAge, lifeStage |-> e.lifeStage, genetics |-> e.genetics,
     isInfected |-> e.isInfected, diseaseTimer |-> e.diseaseTimer,
     isImmune |-> e.isImmune, offspring |-> e.offspring, kills |-> e.kills,
     foodEaten |-> e.foodEaten]

\* saveState(): the document that is serialised (JSON.stringify and
\* JSON.parse reproduce its numbers and strings exactly)
saveState(st) ==
    LET occupied == SelectSeq(ScanOrder("complete"), LAMBDA c : st.grid[c] # 0)
    IN  [version |-> 2,
         generation |-> st.generation,
         atmosphere |-> st.atmosphere,
         currentSeason |-> st.clock.currentSeason,
         seasonTimer |-> st.clock.seasonTimer,
         weather |-> st.clock.weather,
         weatherTimer |-> st.clock.weatherTimer,
         densities |-> st.densities,
         terrain |-> [c \in CellsOf("complete") |->
                        [type |-> st.terrain[c].type,
                         fertility |-> st.terrain[c].fertility,
                         moisture |-> st.terrain[c].moisture]],
         entities |-> [i \in DOMAIN occupied |-> SavedEntity(st.ents[st.grid[occupied[i]]])]]

\* the model follows one save file, written while an operation may follow
SaveState ==
    /\ CanOperate
    /\ variant = "complete"
    /\ saved = NoSave
    /\ saved' = saveState(Live)
    /\ obs' = [op |-> "save"]
    /\ UNCHANGED <<variant, locals, grid, ents, terrain, atmosphere, generation, clock,
                   densities, populations, history, disasters, pc, worklist, ops, steps>>

\* The texts given to loadState: the saved one, the saved one with one of
\* the keys settings, terrain, entities removed, and one that is not JSON
LoadKinds == {"saved", "noSettings", "noTerrain", "noEntities", "notJSON"}

\* the assignments from "this.generation = state.generation" to
\* "this.densities = ..."; "x || d" takes d when x is 0
Header(st, doc) ==
    [st EXCEPT !.generation = doc.generation,
               !.atmosphere = doc.atmosphere,
               !.clock = [currentSeason |-> doc.currentSeason,
                          seasonTimer |-> doc.seasonTimer,
                          weather |-> doc.weather,
                          weatherTimer |-> IF doc.weatherTimer = 0 THEN 50
                                           ELSE doc.weatherTimer],
               !.densities = doc.densities]

\* "Load terrain": new TerrainCell(t.type) with fertility and moisture set
LoadTerrain(st, doc) ==
    [st EXCEPT !.terrain = [c \in AllCells |->
                              IF c \in CellsOf("complete")
                              THEN [TerrainCell(doc.terrain[c].type) EXCEPT
                                       !.fertility = doc.terrain[c].fertility,
                                       !.moisture = doc.terrain[c].moisture]
                              ELSE @[c]]]

\* the draws of Math.random() * 30 in the constructor loadState() calls: the
\* least and the greatest age the draw adds
LoadAgeJitter == {0, 29}

\* one iteration of "Load entities": new Entity(e.type, e.x, e.y) with the
\* saved fields assigned over it; the other fields keep the constructor's
\* (its energy draw is overwritten)
RestoreEntity(s) ==
    {[n EXCEPT !.energy = s.energy, !.age = s.age, !.maxAge = s.maxAge,
               !.lifeStage = s.lifeStage, !.genetics = s.genetics,
               !.isInfected = s.isInfected, !.diseaseTimer = s.diseaseTimer,
               !.isImmune = s.isImmune, !.offspring = s.offspring,
               !.kills = s.kills, !.foodEaten = s.foodEaten]
       : n \in UNION {EntityDrawn(s.type, <<s.x, s.y, 0>>, g, {0}, LoadAgeJitter)
                        : g \in RandomGenetics}}

RECURSIVE LoadEntities(_, _, _)
LoadEntities(W, list, i) ==
    IF i > Len(list) THEN W
    ELSE LoadEntities(UNION {{Place([w EXCEPT !.grid[<<list[i].x, list[i].y, 0>>] = 0],
                                    <<list[i].x, list[i].y, 0>>, e)
                                : e \in RestoreEntity(list[i])}
                               : w \in W},
                      list, i + 1)

\* loadState(jsonString): the live states it can leave and what it returns.
\* An exception leaves the assignments made before it in place.
loadState(st, kind, doc) ==
    LET s1 == Header(st, doc)
        s2 == initGrid(s1)
        s3 == LoadTerrain(s2, doc)
        w3 == [grid |-> s3.grid, ents |-> s3.ents, atm |-> s3.atmosphere,
               terr |-> s3.terrain, ev |-> NoEv]
    IN  CASE kind = "notJSON" -> {[st |-> st, ok |-> FALSE]}
          [] kind = "noSettings" -> {[st |-> s1, ok |-> FALSE]}
          [] kind = "noTerrain" -> {[st |-> s2, ok |-> FALSE]}
          [] kind = "noEntities" -> {[st |-> s3, ok |-> FALSE]}
          [] OTHER ->
               {[st |-> [s3 EXCEPT !.grid = w.grid, !.ents = w.ents,
                                   !.populations = updateStats(w.grid, w.ents)],
                 ok |-> TRUE]
                  : w \in LoadEntities({w3}, doc.entities, 1)}

LoadState ==
    /\ CanOperate
    /\ variant = "complete"
    /\ \E kind \in (IF saved = NoSave THEN {"notJSON"} ELSE LoadKinds) :
         \E out \in loadState(Live, kind, saved) :
            LET heap == Canon(out.st.grid, out.st.ents)
            IN  /\ generation' = out.st.generation
                /\ atmosphere' = out.st.atmosphere
                /\ clock' = out.st.clock
                /\ densities' = out.st.densities
                /\ terrain' = out.st.terrain
                /\ populations' = out.st.populations
                /\ grid' = heap.grid
                /\ ents' = heap.ents
                /\ obs' = [op |-> "load", prev |-> Live, kind |-> kind, ok |-> out.ok,
                           roundTrip |-> (kind = "saved" /\ saved = saveState(Live))]
    /\ ops' = ops + 1
    /\ UNCHANGED <<variant, locals, history, disasters, saved, pc, worklist, steps>>

-----------------------------------------------------------------------------
(* Initial states.  The program starts with populate() on the constructor's *)
(* world; the model starts from worlds the program reaches: fresh ones      *)
(* (generation 0, as populate() or a preset followed by reset() leaves      *)
(* them) and worlds of a run in progress, whose entities have aged and      *)
(* spent energy.  In the Complete Edition a world in progress at a small    *)
(* generation is what loadState() followed by steps leaves, loadState()     *)
(* restarting the generation counter.                                       *)

\* new Entity(type, ..) with the least draws
Fresh(v, type, c) ==
    CHOOSE n \in NewEntity(v, type, c) :
        \A m \in NewEntity(v, type, c) : n.maxAge <= m.maxAge /\ n.energy <= m.energy

\* an entity whose efficiency trait is eff/100 (Genetics draws it in
\* [0.8, 1.2) and inheritance keeps it in [0.3, 2.0])
Efficient(e, eff) == [e EXCEPT !.genetics.efficiency = eff]

\* an entity whose constructor drew maxTrail (12 + Math.floor(Math.random() * 8),
\* one of 12 .. 19) and whose trail holds the given number of entries
Travelled(e, maxTrail, trail) == [e EXCEPT !.maxTrail = maxTrail, !.trail = trail]

\* an entity that is fleeing, with fleeTimer movements to go
Fleeing(e, fleeTimer) == [e EXCEPT !.fleeing = TRUE, !.fleeTimer = fleeTimer]

\* an entity of a run in progress
Grown(v, type, c, energy, age, cycles) ==
    updateLifeStage([Fresh(v, type, c) EXCEPT !.energy = energy, !.age = age,
                                                !.cyclesSinceReproduction = cycles])

\* the entity e at the age after which it dies of old age
LastTick(e) == updateLifeStage([e EXCEPT !.age = e.maxAge])

\* a host and a parasite that has attached itself to it
Infested(host, parasite) ==
    {[host EXCEPT !.parasites = <<CellIndex(Pos(parasite))>>],
     [parasite EXCEPT !.host = CellIndex(Pos(host))]}

\* the grid and heap holding the entities of pop, each in its own cell
HeapOf(pop) ==
    [grid |-> [c \in AllCells |-> IF \E e \in pop : Pos(e) = c THEN CellIndex(c) ELSE 0],
     ents |-> [q \in Refs |-> IF \E e \in pop : CellIndex(Pos(e)) = q
                              THEN CHOOSE e \in pop : CellIndex(Pos(e)) = q
                              ELSE NoEnt]]

PresetAtmosphere(v, name) ==
    [o2 |-> DInt(Presets(v)[name].o2), co2 |-> DInt(100 - Presets(v)[name].o2),
     sunlight |-> Presets(v)[name].sunlight]

\* the atmosphere of a run in progress: o2 = 49.5, co2 = 50.25
UsedAtmosphere == [o2 |-> DHalf(DInt(99)), co2 |-> DHalf(DHalf(DInt(201))), sunlight |-> 5]

NormalTerrain == [c \in AllCells |-> TerrainCell(T_NORMAL)]

\* the generation of the worlds in progress
StartGenOf(v) == IF v = "complete" THEN 14 ELSE 150

c00 == <<0, 0, 0>>
c10 == <<1, 0, 0>>
c01 == <<0, 1, 0>>
c11 == <<1, 1, 0>>

FreshWorlds(v) ==
    {[v |-> v, gen |-> 0, preset |-> name, atm |-> PresetAtmosphere(v, name),
      terrain |-> NormalTerrain, pop |-> pop]
       : name \in {"jungle", "barren"},
         pop \in {{Fresh(v, PLANT, c10)},
                  {Fresh(v, PLANT, c10), Fresh(v, HERBIVORE, c11)},
                  {Fresh(v, PLANT, c10), Fresh(v, DECOMPOSER, c01)}}
                 \cup IF v = "complete"
                      THEN {{Fresh(v, PLANT, c00), Fresh(v, PARASITE, c10)}}
                      ELSE {}}

UsedWorlds(v) ==
    {[v |-> v, gen |-> StartGenOf(v), preset |-> "balanced", atm |-> UsedAtmosphere,
      terrain |-> t, pop |-> pop]
       : t \in IF v = "complete" THEN TerrainMaps ELSE {NormalTerrain},
         pop \in {\* a starving herbivore
                  {Grown(v, HERBIVORE, c10, 300, 30, 14)},
                  \* a hungry carnivore next to a herbivore
                  {Grown(v, CARNIVORE, c10, 40 * EU, 30, 14),
                   Grown(v, HERBIVORE, c01, 60 * EU, 30, 14)},
                  \* a decomposer next to dead matter
                  {Grown(v, DECOMPOSER, c10, 30 * EU, 40, 14),
                   Grown(v, DEAD_MATTER, c01, 20 * EU, 5, 5)},
                  \* a plant able to spread
                  {Grown(v, PLANT, c10, 95 * EU, 40, 14)},
                  \* a plant in the last tick of its life next to a young one
                  {LastTick(Grown(v, PLANT, c10, 60 * EU, 40, 14)),
                   Grown(v, PLANT, c01, 40 * EU, 3, 3)}}
                 \cup IF v = "complete"
                      THEN {\* a weak herbivore next to a parasite
                            {Grown(v, HERBIVORE, c10, 2 * EU, 30, 14),
                             Grown(v, PARASITE, c01, 30 * EU, 14, 14)},
                            \* two herbivores, one able to breed
                            {Grown(v, HERBIVORE, c10, 80 * EU, 30, 14),
                             Grown(v, HERBIVORE, c01, 45 * EU, 30, 14)},
                            {Grown(v, HERBIVORE, c10, 80 * EU, 30, 14),
                             Grown(v, HERBIVORE, c01, 30 * EU, 30, 14)},
                            \* an omnivore and an apex predator
                            {Grown(v, OMNIVORE, c10, 50 * EU, 30, 14),
                             Grown(v, APEX_PREDATOR, c01, 60 * EU, 30, 14)},
                            \* a plant on its own that has stored nearly all the
                            \* energy its size allows
                            {Grown(v, PLANT, c10, 150 * EU - 50, 40, 14)},
                            \* a herbivore in the last tick of its life that drew
                            \* maxTrail 19 and has moved 15 times
                            {Travelled(LastTick(Grown(v, HERBIVORE, c10, 60 * EU, 30, 14)),
                                       19, 15)},
                            \* a plant able to spread with another plant beside it
                            {Grown(v, PLANT, c10, 95 * EU, 40, 14),
                             Grown(v, PLANT, c01, 40 * EU, 20, 14)},
                            \* an omnivore, and a herbivore, that fled from a
                            \* predator which is no longer there
                            {Fleeing(Grown(v, OMNIVORE, c10, 50 * EU, 30, 14), 5)},
                            {Fleeing(Grown(v, HERBIVORE, c10, 50 * EU, 30, 14), 5)},
                            \* a herbivore whose efficiency trait was drawn above 1
                            \* next to a small plant
                            {Efficient(Grown(v, HERBIVORE, c10, 40 * EU, 30, 14), 115),
                             Grown(v, PLANT, c01, 30 * EU, 20, 14)},
                            \* a herbivore in the last tick of its life and the
                            \* parasite that lives on it
                            Infested(LastTick(Grown(v, HERBIVORE, c10, 60 * EU, 30, 14)),
                                     Grown(v, PARASITE, c01, 30 * EU, 14, 14))}
                      ELSE {}}

Scenarios == UNION {FreshWorlds(v) \cup UsedWorlds(v) : v \in {"complete", "2d", "3d"}}

\* the history of a Complete Edition run in progress: the records of
\* generations 5, 10, ..
HistoryAt(gen, pops, atm) ==
    LET n == gen \div 5
        k == Min(n, HistoryMaxLength)
    IN  IF gen >= 10 THEN [i \in 1 .. k |-> Sample(pops, atm, 5 * (n - k + i))]
        ELSE EmptyHistory

InitFrom(S) ==
    \E sc \in S :
       LET heap == HeapOf(sc.pop)
           pops == updateStats(heap.grid, heap.ents)
       IN  /\ variant = sc.v
           /\ grid = heap.grid
           /\ ents = heap.ents
           /\ terrain = sc.terrain
           /\ atmosphere = sc.atm
           /\ generation = sc.gen
           /\ clock = IF sc.gen = 0
                      THEN [seasonTimer |-> 0, currentSeason |-> "spring",
                            weather |-> "clear", weatherTimer |-> 0]
                      ELSE [seasonTimer |-> sc.gen % SeasonLength,
                            currentSeason |-> SeasonAt(sc.gen),
                            weather |-> IF "weather" \in DOMAIN sc THEN sc.weather
                                        ELSE "clear",
                            weatherTimer |-> 36]
           /\ densities = sc.preset
           /\ populations = pops
           /\ history = IF sc.v = "complete" THEN HistoryAt(sc.gen, pops, sc.atm)
                        ELSE EmptyHistory
           /\ disasters = [active |-> <<>>, cooldown |-> 0]
           /\ saved = NoSave
           /\ pc = "idle"
           /\ worklist = <<>>
           /\ ops = 0
           /\ steps = 0
           /\ locals = NoLocals
           /\ obs = [op |-> "init"]

\* every world of the family
InitAll == InitFrom(Scenarios)

\* for the interleavings of operations and steps: a fresh and a used world
\* of the Complete Edition, a used 2D world and a fresh 3D world
FewScenarios ==
    {sc \in Scenarios :
        /\ sc.terrain = NormalTerrain
        /\ \/ sc.gen = 0 /\ sc.preset = "jungle" /\ sc.v # "2d"
                         /\ sc.pop = {Fresh(sc.v, PLANT, c10), Fresh(sc.v, HERBIVORE, c11)}
           \/ sc.gen # 0 /\ sc.v # "3d" /\ \E e \in sc.pop : e.type = CARNIVORE}

Init == InitFrom(FewScenarios)

Next ==
    \/ StepBegin
    \/ ProcessEntry
    \/ StepEnd
    \/ Populate
    \/ Reset
    \/ PresetClick
    \/ ApplyPreset
    \/ SetInitialO2
    \/ SpawnAt
    \/ KillAt
    \/ TriggerDisaster
    \/ SaveState
    \/ LoadState

Spec == Init /\ [][Next]_vars

\* step() alone, from every world of the family
NextStep ==
    \/ StepBegin
    \/ ProcessEntry
    \/ StepEnd

SpecStep == InitAll /\ [][NextStep]_vars

\* The air at its limits: a world of dead matter whose air is nearly all
\* carbon dioxide, and fresh worlds whose gases add up to 100
StaleAtmosphere == [o2 |-> Dbl(20), co2 |-> DSub(DInt(100), Dbl(40)), sunlight |-> 5]

AirScenarios ==
    UNION {{[v |-> v, gen |-> StartGenOf(v), preset |-> "balanced", atm |-> StaleAtmosphere,
             terrain |-> NormalTerrain,
             pop |-> {Grown(v, DEAD_MATTER, c01, 20 * EU, 5, 5)}]}
           \cup {sc \in FreshWorlds(v) : Cardinality(sc.pop) = 1}
             : v \in {"complete", "2d", "3d"}}

InitAir == InitFrom(AirScenarios)

\* populate(), applyPreset(), spawnAt(), killAt() and step()
NextAir ==
    \/ Populate
    \/ ApplyPreset
    \/ SpawnAt
    \/ KillAt
    \/ StepBegin
    \/ ProcessEntry
    \/ StepEnd

SpecAir == InitAir /\ [][NextAir]_vars

\* step() on any air a world can be loaded with: worlds that are empty or
\* hold one plant, with each gas at one of the levels
GasLevels == {DInt(0), DInt(30), DInt(50), DInt(70), DInt(100)}

BalanceScenarios ==
    UNION {{[v |-> v, gen |-> StartGenOf(v), preset |-> "balanced",
             atm |-> [o2 |-> a, co2 |-> b, sunlight |-> 5], terrain |-> NormalTerrain,
             pop |-> pop]
              : a \in GasLevels, b \in GasLevels,
                pop \in {{}, {Grown(v, PLANT, c10, 40 * EU, 40, 14)}}}
             : v \in {"complete", "2d"}}

InitBalance == InitFrom(BalanceScenarios)

SpecBalance == InitBalance /\ [][NextStep]_vars

\* step() on a world of one entity, in air that has both gases and in air
\* that has lost its oxygen and nearly all of its carbon dioxide
ThinAtmosphere == [o2 |-> DInt(0), co2 |-> DInt(2), sunlight |-> 5]

GasScenarios ==
    UNION {{[v |-> v, gen |-> StartGenOf(v), preset |-> "balanced", atm |-> atm,
             terrain |-> NormalTerrain, pop |-> {Grown(v, type, c10, 40 * EU, 30, 14)}]
              : atm \in {UsedAtmosphere, ThinAtmosphere},
                type \in EntityTypesOf(v) \ {DEAD_MATTER}}
             : v \in {"complete", "2d", "3d"}}

InitGas == InitFrom(GasScenarios)

SpecGas == InitGas /\ [][NextStep]_vars

\* Disease: Complete Edition worlds in progress in which an entity is
\* infected (diseaseTimer ticks left) or immune (immuneTimer ticks left)
Infected(e, t) == [e EXCEPT !.isInfected = TRUE, !.diseaseTimer = t]
Immune(e, t) == [e EXCEPT !.isImmune = TRUE, !.immuneTimer = t]

DiseaseScenarios ==
    {[v |-> "complete", gen |-> StartGenOf("complete"), preset |-> "balanced",
      atm |-> UsedAtmosphere, terrain |-> NormalTerrain, pop |-> pop]
       : pop \in {\* an infected herbivore next to an immune one
                  {Infected(Grown("complete", HERBIVORE, c10, 60 * EU, 30, 14), 20),
                   Immune(Grown("complete", HERBIVORE, c01, 60 * EU, 30, 14), 100)},
                  \* an infected herbivore about to recover next to a healthy carnivore
                  {Infected(Grown("complete", HERBIVORE, c10, 60 * EU, 30, 14), 1),
                   Grown("complete", CARNIVORE, c01, 80 * EU, 30, 14)},
                  \* a parasite on an immune host, and on a healthy one
                  Infested(Immune(Grown("complete", HERBIVORE, c10, 60 * EU, 30, 14), 100),
                           Grown("complete", PARASITE, c01, 30 * EU, 14, 14)),
                  Infested(Grown("complete", HERBIVORE, c10, 60 * EU, 30, 14),
                           Grown("complete", PARASITE, c01, 30 * EU, 14, 14)),
                  \* a herbivore whose immunity ends
                  {Immune(Grown("complete", HERBIVORE, c10, 60 * EU, 30, 14), 1)},
                  \* an infected herbivore next to an infected carnivore
                  {Infected(Grown("complete", HERBIVORE, c10, 60 * EU, 30, 14), 20),
                   Infected(Grown("complete", CARNIVORE, c01, 80 * EU, 30, 14), 3)}}}

InitDisease == InitFrom(DiseaseScenarios)

\* triggerDisaster() and step()
NextDisease ==
    \/ TriggerDisaster
    \/ StepBegin
    \/ ProcessEntry
    \/ StepEnd

SpecDisease == InitDisease /\ [][NextDisease]_vars

\* Parasites and hosts: Complete Edition worlds in progress.  A host's list
\* keeps the entry of a parasite that let go of it in the else branch of the
\* drain ("entity.host = null" alone), so a list can be full while fewer than
\* three parasites live on the host.
HostOf(host, listed) == [host EXCEPT !.parasites = listed]
LivingOn(parasite, host) == [parasite EXCEPT !.host = CellIndex(Pos(host))]
aHost == Grown("complete", HERBIVORE, c10, 60 * EU, 30, 14)

HostScenarios ==
    {[v |-> "complete", gen |-> StartGenOf("complete"), preset |-> "balanced",
      atm |-> UsedAtmosphere, terrain |-> NormalTerrain, pop |-> pop]
       : pop \in {\* two parasites on a host whose list also holds a parasite
                  \* that let go and has died, and a newborn parasite beside it
                  {HostOf(aHost, <<CellIndex(c01), CellIndex(c11), Gone>>),
                   LivingOn(Grown("complete", PARASITE, c01, 30 * EU, 14, 14), aHost),
                   LivingOn(Grown("complete", PARASITE, c11, 30 * EU, 14, 14), aHost),
                   Grown("complete", PARASITE, c00, 20 * EU, 2, 2)},
                  \* two parasites on a host and a third one looking for a host
                  {HostOf(aHost, <<CellIndex(c01), CellIndex(c11)>>),
                   LivingOn(Grown("complete", PARASITE, c01, 30 * EU, 14, 14), aHost),
                   LivingOn(Grown("complete", PARASITE, c11, 30 * EU, 14, 14), aHost),
                   Grown("complete", PARASITE, c00, 20 * EU, 2, 2)},
                  \* a parasite about to die on a nearly drained host
                  {HostOf(Grown("complete", HERBIVORE, c10, 2 * EU, 30, 14),
                          <<CellIndex(c01)>>),
                   LivingOn(LastTick(Grown("complete", PARASITE, c01, 30 * EU, 14, 14)),
                            aHost)}}}

InitHosts == InitFrom(HostScenarios)

SpecHosts == InitHosts /\ [][NextStep]_vars

\* Deaths: worlds of one entity of each species of each variant, which is in
\* the last tick of its life, or has next to no energy left, or is in
\* mid-life
DeathScenarios ==
    UNION {{[v |-> v, gen |-> StartGenOf(v), preset |-> "balanced", atm |-> UsedAtmosphere,
             terrain |-> NormalTerrain, pop |-> {e}]
              : e \in UNION {{LastTick(Grown(v, type, c10, 40 * EU, 30, 14)),
                              Grown(v, type, c10, 100, 30, 14),
                              IF type = DEAD_MATTER
                              THEN Grown(v, type, c10, 20 * EU, 5, 5)
                              ELSE Grown(v, type, c10, 40 * EU, 30, 14)}
                               : type \in EntityTypesOf(v)}}
             : v \in {"complete", "2d", "3d"}}

InitDeath == InitFrom(DeathScenarios)

SpecDeath == InitDeath /\ [][NextStep]_vars

\* Crowding: worlds in which every cell holds an entity of one species that
\* is old enough and has the energy to reproduce.  The eight entities of a
\* full 3D world are processed in any of 8! orders, so of the 3D variant,
\* whose four rules share one reproduction block, the herbivores are taken.
BreedingEnergy(type) ==
    CASE type \in {CARNIVORE, APEX_PREDATOR} -> 130 * EU
      [] type = DECOMPOSER -> 80 * EU
      [] type = PARASITE -> 70 * EU
      [] OTHER -> 100 * EU

\* a decomposer is adult from a fifth of its maxAge (180 and more) on
BreedingAge(type) == IF type = DECOMPOSER THEN 40 ELSE 30

CrowdScenarios ==
    UNION {{[v |-> v, gen |-> StartGenOf(v), preset |-> "balanced", atm |-> UsedAtmosphere,
             terrain |-> NormalTerrain,
             pop |-> {Grown(v, type, c, BreedingEnergy(type), BreedingAge(type), 14)
                        : c \in CellsOf(v)}]
              : type \in IF v = "3d" THEN {HERBIVORE}
                         ELSE EntityTypesOf(v) \ {DEAD_MATTER}}
             : v \in {"complete", "2d", "3d"}}

InitCrowd == InitFrom(CrowdScenarios)

SpecCrowd == InitCrowd /\ [][NextStep]_vars

\* Long runs: Complete Edition worlds as they are the given number of steps
\* after populate(): before and at the turn of each season, and with a
\* history buffer that is empty, partly filled and full
LongRunGenerations ==
    {4, 7, SeasonLength - 1, 2 * SeasonLength - 1, 3 * SeasonLength - 1,
     4 * SeasonLength - 1, 5 * HistoryMaxLength + 4, 5 * HistoryMaxLength + 7}

LongRunScenarios ==
    {[v |-> "complete", gen |-> gen, preset |-> "balanced", atm |-> UsedAtmosphere,
      terrain |-> NormalTerrain, pop |-> pop]
       : gen \in LongRunGenerations,
         pop \in {{Grown("complete", PLANT, c10, 60 * EU, 40, 14)},
                  {Grown("complete", HERBIVORE, c10, 60 * EU, 30, 14),
                   Grown("complete", PLANT, c01, 40 * EU, 20, 14)}}}

InitLongRun == InitFrom(LongRunScenarios)

SpecLongRun == InitLongRun /\ [][NextStep]_vars

\* populate() on the terrain as generated and as painted: every draw of a
\* cell has a positive probability in every iteration, so a draw that stays
\* possible is made sooner or later
PopulateScenarios == {sc \in FreshWorlds("complete") : sc.preset = "jungle"}

InitPopulate == InitFrom(PopulateScenarios)

NextPopulate ==
    \/ PaintTerrain
    \/ PopulateBegin
    \/ PopulateSeed
    \/ PopulateEnd

SpecPopulate ==
    /\ InitPopulate
    /\ [][NextPopulate]_vars
    /\ \A c \in CellsOf("complete") : SF_vars(SeedDraw(c))

\* Tools and steps on a terrain with water and a mountain: worlds of the
\* Complete Edition in progress with a carnivore and a herbivore, a decomposer
\* beside dead matter, and a plant able to spread
TerrainScenarios ==
    {sc \in UsedWorlds("complete") :
        /\ sc.terrain # NormalTerrain
        /\ sc.pop \in {{Grown("complete", CARNIVORE, c10, 40 * EU, 30, 14),
                        Grown("complete", HERBIVORE, c01, 60 * EU, 30, 14)},
                       {Grown("complete", DECOMPOSER, c10, 30 * EU, 40, 14),
                        Grown("complete", DEAD_MATTER, c01, 20 * EU, 5, 5)},
                       {Grown("complete", PLANT, c10, 95 * EU, 40, 14)}}}

InitTerrain == InitFrom(TerrainScenarios)

NextTerrain ==
    \/ Populate
    \/ SpawnAt
    \/ KillAt
    \/ PaintTerrain
    \/ TriggerDisaster
    \/ StepBegin
    \/ ProcessEntry
    \/ StepEnd

SpecTerrain == InitTerrain /\ [][NextTerrain]_vars

\* Steps in a storm: worlds of the Complete Edition in their first summer,
\* the weather having turned to storm
StormScenarios ==
    {[v |-> "complete", gen |-> SeasonLength + 14, preset |-> "balanced",
      atm |-> UsedAtmosphere, terrain |-> NormalTerrain, pop |-> pop, weather |-> "storm"]
       : pop \in {{Grown("complete", HERBIVORE, c10, 80 * EU, 30, 14),
                   Grown("complete", PLANT, c01, 40 * EU, 20, 14)},
                  {Grown("complete", CARNIVORE, c10, 40 * EU, 30, 14),
                   Grown("complete", HERBIVORE, c01, 60 * EU, 30, 14)},
                  {Grown("complete", PLANT, c10, 95 * EU, 40, 14),
                   Grown("complete", PLANT, c01, 40 * EU, 20, 14)}}}

\* with them, the worlds in progress of the 2D and 3D variants
InitStorm == InitFrom(StormScenarios \cup UsedWorlds("2d") \cup UsedWorlds("3d"))

SpecStorm == InitStorm /\ [][NextStep]_vars

\* Breeding on the edge: worlds in progress in which a parent or a mate has
\* barely the energy the reproduction asks for.

\* an entity of the Complete Edition that inherited the given size trait
\* (inheritance keeps a trait in [0.3, 2.0]), later in its life
Sized(type, c, size, energy, age, cycles) ==
    LET born == EntityWithGenes(type, c, [DefaultGenes EXCEPT !.size = size])
        e == CHOOSE n \in born : \A m \in born : n.maxAge <= m.maxAge
    IN  updateLifeStage([e EXCEPT !.energy = energy, !.age = age,
                                  !.cyclesSinceReproduction = cycles])

\* the energies of the smallest plant: around reproEnergy * 0.3 = 21
SmallPlantEnergies == {21 * EU + k * 250 : k \in 0 .. 12}

\* the energies of the mate: below and just above the 40 findMate asks for
MateEnergies == {15 * EU, 41 * EU}

BreedScenarios ==
    {[v |-> "complete", gen |-> StartGenOf("complete"), preset |-> "balanced",
      atm |-> UsedAtmosphere, terrain |-> NormalTerrain, pop |-> pop]
       : pop \in {{Sized(PLANT, c10, 30, energy, 40, 14),
                   Grown("complete", PLANT, c01, 40 * EU, 20, 14)}
                     : energy \in SmallPlantEnergies}
                 \cup {{Grown("complete", type, c10, BreedingEnergy(type),
                              BreedingAge(type), 14),
                        Grown("complete", type, c01, energy, BreedingAge(type), 14)}
                         : type \in {HERBIVORE, CARNIVORE, OMNIVORE, APEX_PREDATOR,
                                     DECOMPOSER},
                           energy \in MateEnergies}
                 \cup {{Grown("complete", PARASITE, c10, BreedingEnergy(PARASITE), 30, 14)}}}
    \cup {[v |-> v, gen |-> StartGenOf(v), preset |-> "balanced", atm |-> UsedAtmosphere,
           terrain |-> NormalTerrain,
           pop |-> {Grown(v, type, c10, BreedingEnergy(type), BreedingAge(type), 14)}]
            : v \in {"2d", "3d"}, type \in {PLANT, HERBIVORE, CARNIVORE, DECOMPOSER}}

InitBreed == InitFrom(BreedScenarios)

SpecBreed == InitBreed /\ [][NextStep]_vars

\* the operations alone, from every world of the family
NextOps ==
    \/ Populate
    \/ Reset
    \/ PresetClick
    \/ ApplyPreset
    \/ SetInitialO2
    \/ SpawnAt
    \/ KillAt
    \/ TriggerDisaster
    \/ SaveState
    \/ LoadState

SpecOps == InitAll /\ [][NextOps]_vars

\* Saving, loading and stepping on: worlds of the Complete Edition in
\* progress, one of them with an elder herbivore two ticks past its elder age
elderHerbivore == Grown("complete", HERBIVORE, c10, 60 * EU, 92, 14)

ReloadScenarios ==
    {sc \in UsedWorlds("complete") :
        sc.terrain = NormalTerrain /\ \E e \in sc.pop : e.type \in {CARNIVORE, PARASITE}}
    \cup {[v |-> "complete", gen |-> StartGenOf("complete"), preset |-> "balanced",
           atm |-> UsedAtmosphere, terrain |-> NormalTerrain,
           pop |-> {elderHerbivore, Grown("complete", PLANT, c01, 40 * EU, 40, 14)}]}

NextReload ==
    \/ SaveState
    \/ LoadState
    \/ StepBegin
    \/ ProcessEntry
    \/ StepEnd

InitReload == InitFrom(ReloadScenarios)

SpecReload == InitReload /\ [][NextReload]_vars

-----------------------------------------------------------------------------
(* Properties *)

OccupiedCells == {c \in AllCells : grid[c] # 0}

\* C1 (as stated): in every variant, at the end of every step() the stored
\* gases satisfy o2 + co2 <= 100, whatever they were before the rebalancing.
C1_SumAtMost100 ==
    obs.op = "end" => ~Above(DAdd(atmosphere.o2, atmosphere.co2), 100)

\* C2 (as stated): Complete Edition, after any step() no entity in the grid,
\* DeadMatter included, has energy <= 0.
C2_NoExhaustedEntity ==
    (variant = "complete" /\ obs.op = "end")
        => \A c \in OccupiedCells : ents[grid[c]].energy > 0

\* C3 (as stated): Complete Edition, loadState(saveState()) reproduces the
\* per-species population counts, the atmosphere and the generation counter.
C3_RoundTrip ==
    (obs.op = "load" /\ obs.roundTrip)
        => /\ obs.ok
           /\ updateStats(grid, ents) = updateStats(obs.prev.grid, obs.prev.ents)
           /\ atmosphere = obs.prev.atmosphere
           /\ generation = obs.prev.generation

\* C4 (as stated): Complete Edition, a loadState() that returns false leaves
\* generation, atmosphere, season and weather, densities, grid and terrain
\* exactly as they were before the call.
C4_FailedLoadChangesNothing ==
    (obs.op = "load" /\ ~obs.ok)
        => /\ generation = obs.prev.generation
           /\ atmosphere = obs.prev.atmosphere
           /\ clock = obs.prev.clock
           /\ densities = obs.prev.densities
           /\ grid = obs.prev.grid
           /\ ents = obs.prev.ents
           /\ terrain = obs.prev.terrain

\* C5 (as stated): Complete Edition, populate() leaves the population
\* history empty, whatever the state before the call.
C5_PopulateClearsHistory ==
    (variant = "complete" /\ obs.op = "populate") => history = EmptyHistory

\* C5 (amended): Complete Edition, populate() leaves the recorded history
\* exactly as it was; the history is empty after reset(), which replaces it
\* after its call of populate().
C5_PopulateKeepsHistory ==
    /\ (variant = "complete" /\ obs.op = "populate") => history = obs.prev.history
    /\ (variant = "complete" /\ obs.op \in {"reset", "preset"}) => history = EmptyHistory

C5_Witness ==
    /\ variant = "complete" /\ obs.op = "populate"
    /\ obs.prev.history # EmptyHistory /\ history # EmptyHistory

\* C6: in every variant, populate() sets the generation counter to 0,
\* whatever its value before the call.
C6_PopulateResetsGeneration ==
    obs.op = "populate" => generation = 0

C6_Witness ==
    obs.op = "populate" /\ obs.prev.generation > 0 /\ generation = 0

\* C7: in every variant and after any sequence of operations and steps, every
\* entity a grid cell refers to stores that cell's coordinates, and no entity
\* is referred to by two cells.
C7_CoordinatesMatch ==
    \A c \in OccupiedCells :
        /\ Pos(ents[grid[c]]) = c
        /\ \A d \in OccupiedCells : grid[d] = grid[c] => d = c

C7_Witness ==
    /\ ops > 0 /\ obs.op = "entry" /\ obs.dispatched
    /\ Pos(obs.after) # obs.cell
    /\ grid[Pos(obs.after)] # 0 /\ ents[grid[Pos(obs.after)]] = obs.after

\* C8: in every variant, a worklist entry is dispatched to its rule exactly
\* when the snapshot cell still holds that entity at its turn; an entity
\* replaced earlier in the tick does nothing (grid, entities, gases and
\* terrain are as they were), and a dispatched one is aged by its rule.
C8_DispatchIffHeld ==
    obs.op = "entry"
        => /\ obs.dispatched <=> obs.held
           /\ ~obs.held => ~obs.changed
           /\ obs.held => obs.after.age = obs.before.age + 1

C8_Witness ==
    obs.op = "entry" /\ ~obs.held /\ ~obs.dispatched /\ obs.type # DEAD_MATTER

\* the energy an initiating parent must exceed
InitiatorThreshold(type, genes) ==
    IF type = PLANT THEN Scale(Settings.plant.reproEnergy, genes.size, 100)
    ELSE ReproEnergyOf(type)

\* C9 (as stated): Complete Edition, no offspring is created from an entity,
\* initiating parent or mate, whose energy at the reproduction check is below
\* its species' configured reproEnergy.
C9_NoBirthBelowReproEnergy ==
    (variant = "complete" /\ obs.op = "entry")
        => \A i \in DOMAIN obs.repro :
              /\ obs.repro[i].parentEnergy >= ReproEnergyOf(obs.repro[i].type)
              /\ obs.repro[i].hasMate
                   => obs.repro[i].mateEnergy >= ReproEnergyOf(obs.repro[i].type)

\* C9 (amended): Complete Edition, the initiating parent's energy at the
\* reproduction check exceeds its species' reproEnergy (times its size gene
\* for a plant, the literal 50 for a decomposer); a mate only has to be able
\* to reproduce and to have energy above 40.
C9_BirthThresholds ==
    (variant = "complete" /\ obs.op = "entry")
        => \A i \in DOMAIN obs.repro :
              /\ obs.repro[i].type = obs.type
              /\ obs.repro[i].parentEnergy
                    > InitiatorThreshold(obs.type, obs.before.genetics)
              /\ obs.repro[i].hasMate => obs.repro[i].mateEnergy > 40 * EU

C9_Witness ==
    /\ variant = "complete" /\ obs.op = "entry" /\ obs.repro # <<>>
    /\ obs.repro[1].hasMate
    /\ obs.repro[1].mateEnergy < ReproEnergyOf(obs.repro[1].type)

\* C10 (as stated): a herbivore with no adjacent food and energy at or below
\* zero after its metabolism is, after that step(), replaced by DeadMatter in
\* the cell it occupied at the start of the step.
C10_DeadMatterInStartCell ==
    obs.op = "end"
        => \A c \in obs.starved : grid[c] # 0 /\ ents[grid[c]].type = DEAD_MATTER

\* C10 (amended): such a herbivore is replaced, in its own turn, by DeadMatter
\* in the cell it occupies at the death check: the cell it moved to if it
\* moved in that turn (the cell it left is then empty), else its start cell.
C10_DeadMatterWhereItDied ==
    (obs.op = "entry" /\ obs.dispatched /\ obs.type = HERBIVORE
       /\ ~obs.foodNear /\ obs.after.energy <= 0)
        => /\ obs.death = <<Pos(obs.after)>>
           /\ grid[Pos(obs.after)] # 0
           /\ ents[grid[Pos(obs.after)]].type = DEAD_MATTER
           /\ Pos(obs.after) # obs.cell => grid[obs.cell] = 0

C10_Witness ==
    /\ obs.op = "entry" /\ obs.dispatched /\ obs.type = HERBIVORE
    /\ ~obs.foodNear /\ obs.after.energy <= 0
    /\ Pos(obs.after) # obs.cell
    /\ grid[Pos(obs.after)] # 0 /\ ents[grid[Pos(obs.after)]].type = DEAD_MATTER

\* the order of the lifecycle stages
StageRank(stage) ==
    CASE stage = "juvenile" -> 0 [] stage = "adult" -> 1 [] stage = "elder" -> 2

\* C11 (as stated): Complete Edition, an entity's lifecycle stage never
\* regresses: the turn of an entity in step() leaves its stage where it was or
\* moves it up (Juvenile -> Adult -> Elder), also after saveState() and
\* loadState(); loadState() itself restores the stage that was saved.
C11_StageNeverRegresses ==
    /\ (variant = "complete" /\ obs.op = "entry" /\ obs.dispatched)
          => StageRank(obs.after.lifeStage) >= StageRank(obs.before.lifeStage)
    /\ (obs.op = "load" /\ obs.roundTrip)
          => \A c \in OccupiedCells :
                ents[grid[c]].lifeStage = obs.prev.ents[obs.prev.grid[c]].lifeStage

\* the fields C12 names: every scalar and genetics field but trail and memory
EntityFields(e) ==
    [type |-> e.type, x |-> e.x, y |-> e.y, energy |-> e.energy,
     maxEnergy |-> e.maxEnergy, age |-> e.age, maxAge |-> e.maxAge,
     lifeStage |-> e.lifeStage, maturityAge |-> e.maturityAge,
     elderAge |-> e.elderAge, genetics |-> e.genetics,
     isInfected |-> e.isInfected, diseaseTimer |-> e.diseaseTimer,
     isImmune |-> e.isImmune, immuneTimer |-> e.immuneTimer,
     cyclesSinceReproduction |-> e.cyclesSinceReproduction]

\* C12 (as stated): Complete Edition, loadState(saveState()) restores every
\* scalar and genetics field of every entity of the saved world exactly.
C12_EntityRoundTrip ==
    (obs.op = "load" /\ obs.roundTrip)
        => \A c \in AllCells :
              /\ (grid[c] # 0) = (obs.prev.grid[c] # 0)
              /\ grid[c] # 0
                    => EntityFields(ents[grid[c]])
                         = EntityFields(obs.prev.ents[obs.prev.grid[c]])


\* C13: an entity that is in the grid before and after a step() is one tick
\* older after it, and no entity that the step processed is left in the
\* grid older than its maxAge
C13_AgesByOne ==
    obs.op = "end" => \A a \in obs.aged : a.to = a.from + 1 /\ a.to <= a.maxAge

\* a step that one entity survived while another one left the grid
C13_Witness == obs.op = "end" /\ obs.aged # {} /\ obs.lost # {}


\* C14: neither gas is ever above 100, during a tick or between ticks, and
\* the balance at the end of a step takes from neither gas more than there
\* is of it, so that neither gas is ever below 0
C14_GasesWithinBounds ==
    /\ ~Above(atmosphere.o2, 100)
    /\ ~Above(atmosphere.co2, 100)
    /\ obs.op = "end" => /\ ~DLess(obs.pre.o2, HalfExcess(obs.pre))
                         /\ ~DLess(obs.pre.co2, HalfExcess(obs.pre))

\* the end of a step in which co2 was held at 100 and the balance then took
\* from both gases
C14_Witness ==
    /\ obs.op = "end"
    /\ obs.pre.co2 = DInt(100)
    /\ DLess(DInt(0), HalfExcess(obs.pre))
    /\ DLess(atmosphere.co2, DInt(100))


\* Exact products of doubles, for comparing ratios: a natural number is the
\* sequence of its digits in base 2^10, the lowest first
Digit == Pow2(10)

RECURSIVE Carried(_, _, _)
Carried(s, i, carry) ==
    IF i > Len(s) THEN IF carry = 0 THEN <<>> ELSE <<carry>>
    ELSE <<(s[i] + carry) % Digit>> \o Carried(s, i + 1, (s[i] + carry) \div Digit)

\* the digits of the double d (in units of 2^-61)
Big(d) ==
    <<d[3] % Digit, d[3] \div Digit, d[2] % Digit, d[2] \div Digit,
      d[1] % Digit, (d[1] \div Digit) % Digit, d[1] \div (Digit * Digit)>>

DigitAt(a, i) == IF i \in DOMAIN a THEN a[i] ELSE 0

RECURSIVE SumOfProducts(_, _, _, _)
SumOfProducts(a, b, i, j) ==
    IF j > Len(a) THEN 0 ELSE a[j] * DigitAt(b, i - j + 1) + SumOfProducts(a, b, i, j + 1)

BigTimes(a, b) == Carried([i \in 1 .. (Len(a) + Len(b)) |-> SumOfProducts(a, b, i, 1)], 1, 0)

BigPlus(a, b) ==
    Carried([i \in 1 .. Max(Len(a), Len(b)) |-> DigitAt(a, i) + DigitAt(b, i)], 1, 0)

BigAtMost(a, b) ==
    LET n == Max(Len(a), Len(b))
    IN  \/ \A i \in 1 .. n : DigitAt(a, i) = DigitAt(b, i)
        \/ \E i \in 1 .. n : /\ DigitAt(a, i) < DigitAt(b, i)
                              /\ \A j \in (i + 1) .. n : DigitAt(a, j) = DigitAt(b, j)

\* a : b = c : d to within one part in 2^30, far more than the rounding
\* of a few double operations can account for
SameRatio(a, b, c, d) ==
    LET x == BigTimes(Big(a), Big(d))
        y == BigTimes(Big(c), Big(b))
        Times2p30(n) == <<0, 0, 0>> \o n
    IN  /\ BigAtMost(Times2p30(x), BigPlus(Times2p30(y), y))
        /\ BigAtMost(Times2p30(y), BigPlus(Times2p30(x), x))

\* C15 as the specification states it: when the balance acts, the ratio
\* o2 : co2 after it is the ratio before it
C15_RatioKept ==
    (obs.op = "end" /\ DLess(DInt(0), HalfExcess(obs.pre)))
        => SameRatio(atmosphere.o2, atmosphere.co2, obs.pre.o2, obs.pre.co2)

\* C15, amended: when o2 + co2 exceeds 100 at the end of a step, the balance
\* lowers both gases by the same amount, half the excess, whatever their
\* ratio
C15_SameAmountFromBoth ==
    (obs.op = "end" /\ DLess(DInt(0), HalfExcess(obs.pre)))
        => /\ atmosphere.o2 = DMinus(obs.pre.o2, HalfExcess(obs.pre))
           /\ atmosphere.co2 = DMinus(obs.pre.co2, HalfExcess(obs.pre))

\* the balance has acted on unequal gases
C15_Witness ==
    /\ obs.op = "end"
    /\ DLess(DInt(0), HalfExcess(obs.pre))
    /\ DLess(obs.pre.co2, obs.pre.o2)
    /\ DLess(atmosphere.o2, obs.pre.o2)
    /\ DLess(atmosphere.co2, obs.pre.co2)


\* C16: a step that ends with o2 + co2 above 100 ends with (o2 - e/2,
\* co2 - e/2) for the excess e = o2 + co2 - 100, (100, 100) becoming
\* (50, 50); a step that ends with o2 + co2 at most 100 leaves both gases
\* as they are
C16_ExcessSplitEvenly ==
    obs.op = "end" =>
        LET total == DAdd(obs.pre.o2, obs.pre.co2)
            e == DMinus(total, DInt(100))
        IN  /\ Above(total, 100) => /\ atmosphere.o2 = DMinus(obs.pre.o2, DHalf(e))
                                    /\ atmosphere.co2 = DMinus(obs.pre.co2, DHalf(e))
            /\ ~Above(total, 100) => /\ atmosphere.o2 = obs.pre.o2
                                     /\ atmosphere.co2 = obs.pre.co2
            /\ (obs.pre.o2 = DInt(100) /\ obs.pre.co2 = DInt(100))
                  => atmosphere.o2 = DInt(50) /\ atmosphere.co2 = DInt(50)

\* the step of an empty world whose gases were both 100 has ended with both
\* at 50
C16_Witness ==
    /\ obs.op = "end"
    /\ obs.pre.o2 = DInt(100)
    /\ obs.pre.co2 = DInt(100)
    /\ atmosphere.o2 = DInt(50)


\* C17: the generation counter is one higher at the end of every step()
\* than it was before it, no part of the step before its end changing it;
\* spawnAt(), killAt() and applyPreset() leave it as it is
C17_GenerationCounts ==
    [][/\ (pc = "process" /\ pc' = "idle") => generation' = generation + 1
       /\ pc' = "process" => generation' = generation
       /\ (pc = "idle" /\ obs'.op \in {"spawn", "kill", "applyPreset"})
             => generation' = generation]_vars

\* a step has ended in a world that an operation had left at a generation
\* other than 0
C17_Witness == obs.op = "end" /\ ops = 1 /\ generation = StartGenOf(variant) + 1


\* for obs.prev of an operation: cell d holds now what it held before
SameCell(d) ==
    IF obs.prev.grid[d] = 0 THEN grid[d] = 0
    ELSE grid[d] # 0 /\ ents[grid[d]] = obs.prev.ents[obs.prev.grid[d]]

\* C18: spawnAt(x, y, type) puts a new entity of the type into the cell if
\* the cell was empty, its terrain is not Mountain and its terrain is not
\* Water unless the type is Plant; otherwise the grid is as it was; in
\* either case every other cell is as it was
C18_SpawnOnlyWhereAllowed ==
    obs.op = "spawn" =>
        LET c == obs.cell
            allowed == /\ obs.prev.grid[c] = 0
                       /\ terrain[c].type # T_MOUNTAIN
                       /\ terrain[c].type # T_WATER \/ obs.type = PLANT
        IN  /\ allowed => /\ grid[c] # 0
                          /\ ents[grid[c]].type = obs.type
                          /\ Pos(ents[grid[c]]) = c
            /\ ~allowed => SameCell(c)
            /\ \A d \in AllCells \ {c} : SameCell(d)

\* a plant has been spawned on water next to cells that hold entities
C18_Witness ==
    /\ obs.op = "spawn"
    /\ terrain[obs.cell].type = T_WATER
    /\ obs.prev.grid[obs.cell] = 0
    /\ grid[obs.cell] # 0
    /\ \E d \in AllCells \ {obs.cell} : grid[d] # 0


\* C19: at the end of a step no parasite of the grid has a host that is not
\* in the grid, and no parasite that came to its turn with a host has
\* drained it while the host was not in the grid
C19_NoHostOutsideGrid ==
    variant = "complete" =>
        /\ obs.op = "end"
             => \A c \in OccupiedCells :
                   (ents[grid[c]].type = PARASITE /\ ents[grid[c]].host # 0)
                       => \E d \in AllCells : grid[d] = ents[grid[c]].host
        /\ (/\ obs.op = "entry" /\ obs.dispatched /\ obs.type = PARASITE
            /\ obs.before.host # 0
            /\ obs.after.foodEaten > obs.before.foodEaten)
             => \E d \in AllCells : grid[d] = obs.before.host


\* C20: on every step() the remaining duration of every active disaster
\* goes down by exactly one, and the disaster is removed in the step that
\* brings it to zero (disasters that the step itself triggers come after
\* the ones that were active)
C20_DurationsCountDown ==
    [][(variant = "complete" /\ pc = "idle" /\ pc' = "process")
          => LET left == SelectSeq(disasters.active, LAMBDA d : d.duration > 1)
             IN  /\ Len(disasters'.active) >= Len(left)
                 /\ \A i \in 1 .. Len(left) :
                       disasters'.active[i] = [left[i] EXCEPT !.duration = @ - 1]]_vars


\* C21: Complete Edition, right after a reproduction with a mate the cooldown
\* of both parents has restarted: neither the initiating parent nor the mate
\* is able to reproduce, as initiator or as mate
C21_BothParentsCoolDown ==
    (variant = "complete" /\ obs.op = "entry")
        => \A i \in DOMAIN obs.repro :
              obs.repro[i].hasMate
                 => /\ ~canReproduce(ents[obs.repro[i].parent])
                    /\ ~canReproduce(ents[obs.repro[i].mate])


\* C22: Complete Edition, at the end of every step() the energy of every
\* entity of the grid is at least 0 and at most the entity's maxEnergy
C22_EnergyWithinBounds ==
    (variant = "complete" /\ obs.op = "end")
        => \A c \in OccupiedCells :
              /\ ents[grid[c]].energy >= 0
              /\ ents[grid[c]].energy <= ents[grid[c]].maxEnergy


\* the gas a species lives on is scarce: at or below the threshold its rule
\* tests, and for the species whose rule tests none, gone altogether
Scarce(type, air) ==
    CASE type = PLANT -> ~Above(air.co2, IF variant = "complete" THEN 3 ELSE 5)
      [] type \in {HERBIVORE, CARNIVORE, OMNIVORE}
            -> ~Above(air.o2, IF variant = "complete" THEN 8 ELSE 10)
      [] type = APEX_PREDATOR -> ~Above(air.o2, 10)
      [] OTHER -> air.o2 = DInt(0)

\* C23: the turn of an entity that neither feeds nor decomposes leaves both
\* gases as they were when the gas the species needs is scarce, and
\* changes a gas when it is not
C23_MetabolismNeedsGas ==
    (obs.op = "entry" /\ obs.dispatched /\ obs.type # DEAD_MATTER /\ obs.fed = <<>>)
        => IF Scarce(obs.type, obs.air)
           THEN atmosphere.o2 = obs.air.o2 /\ atmosphere.co2 = obs.air.co2
           ELSE atmosphere.o2 # obs.air.o2 \/ atmosphere.co2 # obs.air.co2


\* C24: Complete Edition: whenever an entity feeds (grazes, hunts, scavenges
\* or decomposes), the energy it gains is at most the energy the eaten entity
\* held at that moment.
C24_GainAtMostFood ==
    (variant = "complete" /\ obs.op = "entry")
        => \A i \in DOMAIN obs.fed : obs.fed[i].gain <= obs.fed[i].food


\* C25: Complete Edition: every entity in the grid, the dead matter left by a
\* death included, holds at most maxTrail trail entries and at most
\* maxMemory memories, each bound being the entity's own.
C25_TrailAndMemoryBounded ==
    variant = "complete"
        => \A c \in OccupiedCells : /\ ents[grid[c]].trail <= ents[grid[c]].maxTrail
                                    /\ ents[grid[c]].memory <= ents[grid[c]].maxMemory


\* C26: Complete Edition: no entity is infected and immune at once, whichever
\* of neighbour transmission, a parasite or a disease outbreak tries to infect
\* it; and an entity whose disease ends is immune, no longer infected, and
\* its immunity counts down from immuneDuration from that tick on.
C26_ImmuneNeverInfected ==
    variant = "complete"
        => /\ \A c \in OccupiedCells : ~(ents[grid[c]].isInfected /\ ents[grid[c]].isImmune)
           /\ (obs.op = "entry" /\ obs.dispatched /\ obs.before.isInfected
                   /\ obs.before.diseaseTimer <= 1)
                 => /\ obs.after.isImmune
                    /\ ~obs.after.isInfected
                    /\ obs.after.immuneTimer = Settings.disease.immuneDuration - 1

\* an infected entity has had its turn next to an immune one, which stays
\* healthy
C26_Witness ==
    /\ variant = "complete"
    /\ obs.op = "entry" /\ obs.dispatched /\ obs.before.isInfected
    /\ \E n \in getNeighbors(obs.cell) :
          grid[n] # 0 /\ ents[grid[n]].isImmune /\ ~ents[grid[n]].isInfected


\* C27: Complete Edition: at every state and for every entity h, the list
\* h.parasites holds at most 3 entries, every parasite in the grid whose host
\* is h is in that list, and so at most 3 parasites have h as their host.
C27_AtMostThreeParasites ==
    variant = "complete"
        => \A h \in Refs :
              ents[h] # NoEnt
                 => LET living == {c \in OccupiedCells : /\ ents[grid[c]].type = PARASITE
                                                        /\ ents[grid[c]].host = h}
                    IN  /\ Len(ents[h].parasites) <= 3
                        /\ Cardinality(living) <= 3
                        /\ \A c \in living :
                              \E i \in DOMAIN ents[h].parasites : ents[h].parasites[i] = grid[c]

\* a parasite without a host has had its turn beside a host whose list is
\* full, and has no host still
C27_Witness ==
    /\ variant = "complete"
    /\ obs.op = "entry" /\ obs.dispatched /\ obs.type = PARASITE
    /\ obs.before.host = 0 /\ obs.after.host = 0
    /\ \E n \in getNeighbors(obs.cell) :
          /\ grid[n] # 0
          /\ ents[grid[n]].type \in {HERBIVORE, OMNIVORE, CARNIVORE}
          /\ Len(ents[grid[n]].parasites) = 3


\* C28: every variant: when the death check of an entity's rule fires, the
\* cell the entity occupies at that moment holds a new DeadMatter entity if
\* the entity was a plant, herbivore, carnivore, omnivore or apex predator,
\* and is empty if it was a decomposer, a parasite or dead matter.
C28_ResidueBySpecies ==
    (obs.op = "entry" /\ obs.dispatched /\ Dying(obs.after))
        => LET d == Pos(obs.after)
           IN  /\ obs.death = <<d>>
               /\ IF obs.type \in {PLANT, HERBIVORE, CARNIVORE, OMNIVORE, APEX_PREDATOR}
                  THEN /\ grid[d] # 0
                       /\ ents[grid[d]].type = DEAD_MATTER
                       /\ ents[grid[d]].age = 0
                  ELSE grid[d] = 0

\* a herbivore has moved in its last turn and died in the cell it moved to
C28_Witness ==
    /\ obs.op = "entry" /\ obs.dispatched /\ obs.type = HERBIVORE
    /\ Dying(obs.after)
    /\ Pos(obs.after) # obs.cell
    /\ grid[obs.cell] = 0


\* C29: every variant: the turn of a DeadMatter entity adds carbon dioxide to
\* the air, when the entity decays and stays as well as when it is removed.
C29_DecayReleasesCO2 ==
    (obs.op = "entry" /\ obs.dispatched /\ obs.type = DEAD_MATTER)
        => DLess(obs.air.co2, atmosphere.co2)


\* C30: every variant and species: when an entity that has passed the tests
\* of its reproduction block has no empty cell next to it, the attempt
\* creates no entity and leaves the energy, the offspring count and the
\* cooldown of the entity and of every candidate mate as they were.
C30_BlockedAttemptChangesNothing ==
    (obs.op = "entry" /\ obs.tried # <<>> /\ obs.tried[1].crowded)
        => LET t == obs.tried[1]
               same(q) == /\ ents[q.ref].energy = q.energy
                          /\ ents[q.ref].offspring = q.offspring
                          /\ ents[q.ref].cyclesSinceReproduction = q.cycles
           IN  /\ obs.repro = <<>>
               /\ \A c \in AllCells : grid[c] \in t.refs \/ obs.death = <<c>>
               /\ same(t.self)
               /\ \A m \in t.mates : same(m)

\* an animal with a mate at hand has tried to reproduce in a full grid
C30_Witness ==
    /\ obs.op = "entry" /\ obs.tried # <<>>
    /\ obs.tried[1].crowded
    /\ obs.tried[1].mates # {}
    /\ \A c \in CellsOf(variant) : grid[c] # 0


\* C31: Complete Edition: a plant that has its turn with no other plant
\* within spreadRadius of it (per axis) makes no reproduction attempt and has
\* no offspring in that turn, whatever its energy, life stage and cooldown:
\* after the turn the grid holds no plant but, at most, itself.
C31_LonePlantNeverSpreads ==
    (variant = "complete" /\ obs.op = "entry" /\ obs.dispatched /\ obs.type = PLANT
        /\ obs.plantsNear = {})
        => /\ obs.repro = <<>>
           /\ obs.tried = <<>>
           /\ obs.after.offspring = obs.before.offspring
           /\ \A n \in Around(obs.cell, Settings.plant.spreadRadius) :
                 grid[n] = 0 \/ ents[grid[n]].type # PLANT

\* a lone adult plant with the energy to spread, its cooldown over, on
\* fertile ground has had its turn
C31_Witness ==
    /\ variant = "complete" /\ obs.op = "entry" /\ obs.dispatched /\ obs.type = PLANT
    /\ obs.plantsNear = {}
    /\ obs.after.energy > Scale(Settings.plant.reproEnergy, obs.after.genetics.size, 100)
    /\ canReproduce(obs.after)
    /\ terrain[obs.cell].fertility > 300
    /\ grid[obs.cell] # 0


C33_SeasonCycle ==
    (variant = "complete" /\ pc = "idle")
        => /\ clock.currentSeason = SeasonAt(generation)
           /\ clock.seasonTimer = generation % SeasonLength

\* a step has turned winter into spring
C33_Witness ==
    /\ variant = "complete" /\ obs.op = "end"
    /\ generation = 4 * SeasonLength
    /\ clock.currentSeason = "spring"


\* C34: Complete Edition: with no carnivore and no apex predator in the
\* grid, every turn in which a fleeing herbivore or omnivore moves brings
\* the end of its flight nearer: its fleeTimer goes down, and it stops
\* fleeing when the timer reaches 0.
C34_FlightRunsOut ==
    (/\ variant = "complete" /\ obs.op = "entry" /\ obs.dispatched
     /\ obs.type \in {HERBIVORE, OMNIVORE}
     /\ obs.before.fleeing
     /\ Pos(obs.after) # Pos(obs.before)
     /\ \A c \in OccupiedCells : ents[grid[c]].type \notin {CARNIVORE, APEX_PREDATOR})
        => /\ obs.after.fleeTimer < obs.before.fleeTimer
           /\ obs.after.fleeing = (obs.after.fleeTimer > 0)

-----------------------------------------------------------------------------
\* C35 (Complete Edition): populate() terminates from every reachable
\* state, on the generated terrain and on terrain edited with
\* paintTerrain(): a populate() that has started its colony-seed loop
\* leaves that loop (the loops after it are for-loops over the grid).
C35_PopulateTerminates == (pc = "seed") ~> (pc = "grow")

-----------------------------------------------------------------------------
\* C36 (Complete Edition): after populate() and any sequence of step,
\* spawnAt, killAt, paintTerrain and triggerDisaster no entity stands on a
\* Mountain cell, and no herbivore, carnivore, omnivore, apex predator,
\* decomposer or parasite stands on a Water cell.
C36_TerrainRespected ==
    variant = "complete"
       => \A c \in OccupiedCells :
             /\ terrain[c].type # T_MOUNTAIN
             /\ ents[grid[c]].type \in {HERBIVORE, CARNIVORE, OMNIVORE, APEX_PREDATOR,
                                        DECOMPOSER, PARASITE}
                   => terrain[c].type # T_WATER

\* water or a mountain was painted over an entity, and an animal is left
\* beside a free cell of water or mountain
C36_Witness ==
    /\ variant = "complete"
    /\ obs.op = "paint"
    /\ obs.type \in {T_WATER, T_MOUNTAIN}
    /\ \E d \in Brush(obs.cell, obs.brushSize) : obs.prev.grid[d] # 0
    /\ \E c \in OccupiedCells :
          /\ ents[grid[c]].type \in {HERBIVORE, CARNIVORE, DECOMPOSER}
          /\ \E n \in Around(c, 1) : grid[n] = 0 /\ terrain[n].type = obs.type

-----------------------------------------------------------------------------
\* C37 (every variant): in one iteration of the loop of step() a moving
\* entity or a newborn is only written into a cell that is empty at that
\* moment (empty before the iteration, or emptied in it by the entity's own
\* move or meal), and an entity leaves the grid only as the dispatched
\* entity that dies or as the food that was eaten.
C37_NoSilentOverwrite ==
    [][(pc = "process" /\ worklist # <<>>)
         => LET r == Head(worklist).ref
                eaten == {obs'.fed[i].cell : i \in DOMAIN obs'.fed}
            IN  /\ \A c \in AllCells :
                      (grid'[c] # 0 /\ grid'[c] # grid[c]
                          /\ ents'[grid'[c]].type # DEAD_MATTER)
                         => (grid[c] = 0 \/ grid[c] = r \/ c \in eaten)
                /\ \A c \in AllCells :
                      (grid[c] # 0 /\ \A d \in AllCells : grid'[d] # grid[c])
                         => \/ grid[c] = r /\ obs'.death # <<>>
                            \/ c \in eaten]_vars

\* an entity has moved, and another has put a newborn down, each beside an
\* occupied cell
C37_Witness ==
    /\ obs.op = "entry"
    /\ obs.dispatched
    /\ \/ Pos(obs.after) # Pos(obs.before)
       \/ obs.repro # <<>>
    /\ obs.death = <<>>
    /\ \E n \in getNeighbors(obs.cell) : grid[n] # 0 /\ ents[grid[n]].type = obs.type
    /\ Cardinality(OccupiedCells) >= 3

-----------------------------------------------------------------------------
\* C38 as stated (every variant): an entity created during a step() is
\* never dispatched in that step, so every dispatched entity was in the
\* grid when step() was called.
C38_CreatedNeverDispatched ==
    (obs.op = "entry" /\ obs.dispatched) => obs.start[obs.ref] >= 0

\* C38 (every variant): the loop of step() dispatches an entry at most once
\* and only an entity that was in the grid when the worklist was collected
\* and still holds its cell; an entity created after the worklist was
\* collected (offspring, a residue of a death or a kill in the loop) has not
\* aged when the loop goes on.
C38_OnlyTheSnapshotActs ==
    /\ (obs.op = "entry" /\ obs.dispatched)
          => /\ obs.held
             /\ obs.ref \in obs.snapshot
             /\ \A i \in DOMAIN worklist : worklist[i].ref # obs.ref
    /\ pc = "process"
          => \A c \in OccupiedCells : grid[c] \notin obs.snapshot => ents[grid[c]].age = 0

\* an entry was skipped because its entity had lost its cell, and an entity
\* created in this step stands in the grid
C38_Witness ==
    /\ pc = "process"
    /\ obs.op = "entry"
    /\ ~obs.dispatched
    /\ \E c \in OccupiedCells : grid[c] \notin obs.snapshot

-----------------------------------------------------------------------------
C39_MateWitness ==
    /\ obs.op = "entry" /\ obs.dispatched /\ obs.repro # <<>>
    /\ obs.repro[1].hasMate
    /\ obs.repro[1].mateEnergy <= 41 * EU
    /\ ents[obs.repro[1].mate].energy < obs.repro[1].mateEnergy

-----------------------------------------------------------------------------
\* C40 (Complete Edition): in the loop of step() the disease timer of an
\* infected entity goes down by one in each of its own processed ticks and
\* is changed by nothing else; in the tick in which it reaches 0 the entity
\* stops being infected and is immune.  An infection with timer t therefore
\* ends after at most t of the entity's own ticks.
C40_InfectionRunsOut ==
    [][(variant = "complete" /\ pc = "process" /\ worklist # <<>>)
         => \A r \in Refs :
               (ents[r] # NoEnt /\ ents[r].isInfected)
                  => IF r = Head(worklist).ref /\ obs'.dispatched
                     THEN IF ents[r].diseaseTimer - 1 <= 0
                          THEN ~ents'[r].isInfected /\ ents'[r].isImmune
                          ELSE /\ ents'[r].isInfected
                               /\ ents'[r].diseaseTimer = ents[r].diseaseTimer - 1
                     ELSE /\ ents'[r].isInfected
                          /\ ents'[r].diseaseTimer = ents[r].diseaseTimer]_vars

\* an infected entity has recovered in its own tick and is immune, and
\* another infected entity has been processed beside an infected neighbour
C40_Witness ==
    /\ variant = "complete"
    /\ obs.op = "entry" /\ obs.dispatched
    /\ obs.before.isInfected
    /\ \/ /\ obs.before.diseaseTimer = 1
          /\ ~obs.after.isInfected
          /\ obs.after.isImmune
          /\ obs.after.immuneTimer = Settings.disease.immuneDuration - 1
       \/ /\ obs.after.isInfected
          /\ \E n \in getNeighbors(obs.cell) : grid[n] # 0 /\ ents[grid[n]].isInfected

=============================================================================
